---- MODULE Spec2Model ----
(***************************************************************************)
(* Model of the Spraay x402 gateway: the batch-payment handlers (V2, V3,   *)
(* execute and estimate), the token listing, the swap-quote handler with   *)
(* its Uniswap fee-tier search, and the in-memory usage counters.          *)
(*                                                                         *)
(* JavaScript strings that the code takes apart (token inputs, addresses,  *)
(* human amounts) are sequences of one-character strings, so that          *)
(* startsWith, toUpperCase, parseUnits and formatUnits are computed as the *)
(* code computes them.  Strings that are only compared (error messages,    *)
(* contract addresses of the gateway itself) are TLA+ strings.             *)
(***************************************************************************)
EXTENDS Integers, Sequences, FiniteSets, TLC

VARIABLES stats, request, response, probes,
          priceCache, clock, priceRequests, priceResponse

\* the state of the price feed, and the state of the other routes
feed == <<priceCache, clock, priceRequests, priceResponse>>
gateway == <<stats, request, response, probes>>

vars == <<stats, request, response, probes, priceCache, clock, priceRequests, priceResponse>>

(***************************************************************************)
(* Bounds of the model.                                                    *)
(***************************************************************************)
\* longest recipient list whose entries are drawn freely from the entry sets
MaxLen == 2
\* number of requests served in one behaviour
MaxRequests == 1
\* price requests of a behaviour
MaxPriceRequests == 2
\* steps of 15 seconds the clock makes
MaxTicks == 2
\* highest exchange rate (output units per input unit) of a pool
MaxRate == 2

(***************************************************************************)
(* Characters and JavaScript string primitives.                            *)
(***************************************************************************)
Digits == {"0", "1", "2", "3", "4", "5", "6", "7", "8", "9"}
LowerHex == {"a", "b", "c", "d", "e", "f"}
UpperHex == {"A", "B", "C", "D", "E", "F"}

DigitVal(c) ==
    CASE c = "0" -> 0 [] c = "1" -> 1 [] c = "2" -> 2 [] c = "3" -> 3
      [] c = "4" -> 4 [] c = "5" -> 5 [] c = "6" -> 6 [] c = "7" -> 7
      [] c = "8" -> 8 [] c = "9" -> 9

DigitChar(n) ==
    CASE n = 0 -> "0" [] n = 1 -> "1" [] n = 2 -> "2" [] n = 3 -> "3"
      [] n = 4 -> "4" [] n = 5 -> "5" [] n = 6 -> "6" [] n = 7 -> "7"
      [] n = 8 -> "8" [] n = 9 -> "9"

UpperChar(c) ==
    CASE c = "a" -> "A" [] c = "b" -> "B" [] c = "c" -> "C" [] c = "d" -> "D"
      [] c = "e" -> "E" [] c = "f" -> "F" [] c = "g" -> "G" [] c = "h" -> "H"
      [] c = "i" -> "I" [] c = "j" -> "J" [] c = "k" -> "K" [] c = "l" -> "L"
      [] c = "m" -> "M" [] c = "n" -> "N" [] c = "o" -> "O" [] c = "p" -> "P"
      [] c = "q" -> "Q" [] c = "r" -> "R" [] c = "s" -> "S" [] c = "t" -> "T"
      [] c = "u" -> "U" [] c = "v" -> "V" [] c = "w" -> "W" [] c = "x" -> "X"
      [] c = "y" -> "Y" [] c = "z" -> "Z" [] OTHER -> c

LowerChar(c) ==
    CASE c = "A" -> "a" [] c = "B" -> "b" [] c = "C" -> "c" [] c = "D" -> "d"
      [] c = "E" -> "e" [] c = "F" -> "f" [] c = "G" -> "g" [] c = "H" -> "h"
      [] c = "I" -> "i" [] c = "J" -> "j" [] c = "K" -> "k" [] c = "L" -> "l"
      [] c = "M" -> "m" [] c = "N" -> "n" [] c = "O" -> "o" [] c = "P" -> "p"
      [] c = "Q" -> "q" [] c = "R" -> "r" [] c = "S" -> "s" [] c = "T" -> "t"
      [] c = "U" -> "u" [] c = "V" -> "v" [] c = "W" -> "w" [] c = "X" -> "x"
      [] c = "Y" -> "y" [] c = "Z" -> "z" [] OTHER -> c

\* String.prototype.toUpperCase
toUpperCase(s) == [i \in 1..Len(s) |-> UpperChar(s[i])]

\* String.prototype.toLowerCase
toLowerCase(s) == [i \in 1..Len(s) |-> LowerChar(s[i])]

\* String.prototype.startsWith("0x")
startsWith0x(s) == Len(s) >= 2 /\ s[1] = "0" /\ s[2] = "x"

AllIn(s, chars) == \A i \in 1..Len(s) : s[i] \in chars

\* s.substring(from - 1): the characters of s from position `from` on
From(s, from) == IF from > Len(s) THEN <<>> ELSE SubSeq(s, from, Len(s))

\* n copies of the character c
Repeat(c, n) == [i \in 1..n |-> c]

(***************************************************************************)
(* BigInt arithmetic.  Values are unbounded in the code; the requests of   *)
(* the model keep them inside TLC's integers.                              *)
(***************************************************************************)
\* BigInt division truncates toward zero
BigIntDiv(a, b) == IF a >= 0 THEN a \div b ELSE -((-a) \div b)

RECURSIVE NatToString(_)
NatToString(n) ==
    IF n < 10 THEN <<DigitChar(n)>>
    ELSE Append(NatToString(n \div 10), DigitChar(n % 10))

\* BigInt.prototype.toString()
BigIntToString(v) == IF v < 0 THEN <<"-">> \o NatToString(-v) ELSE NatToString(v)

\* BigInt(digits) of a string of decimal digits; leading zeros contribute nothing
RECURSIVE DigitsToNat(_)
DigitsToNat(s) ==
    IF s = <<>> THEN 0
    ELSE DigitsToNat(SubSeq(s, 1, Len(s) - 1)) * 10 + DigitVal(s[Len(s)])

(***************************************************************************)
(* ethers.parseUnits / ethers.formatUnits (FixedNumber.fromString and      *)
(* FixedNumber.toString of the ethers v6 library the handlers call).       *)
(***************************************************************************)
\* position of the first "." of s, or Len(s) + 1 when it has none
DotIndex(s) ==
    IF \E i \in 1..Len(s) : s[i] = "."
    THEN CHOOSE i \in 1..Len(s) : s[i] = "." /\ \A j \in 1..(i - 1) : s[j] # "."
    ELSE Len(s) + 1

\* value.match(/^(-?)([0-9]*)\.?([0-9]*)$/) with at least one digit; the
\* fraction is padded to `decimals`, digits beyond `decimals` must be zeros
parseUnits(value, decimals) ==
    LET negative == Len(value) > 0 /\ value[1] = "-"
        body     == IF negative THEN Tail(value) ELSE value
        dot      == DotIndex(body)
        whole    == SubSeq(body, 1, dot - 1)
        decimal  == From(body, dot + 1)
        matches  == AllIn(whole, Digits) /\ AllIn(decimal, Digits)
                    /\ Len(whole) + Len(decimal) > 0
        padded   == decimal \o Repeat("0", IF Len(decimal) < decimals
                                            THEN decimals - Len(decimal) ELSE 0)
        safe     == AllIn(From(padded, decimals + 1), {"0"})
        digits   == whole \o SubSeq(padded, 1, decimals)
        abs      == DigitsToNat(digits)
    IN  IF ~matches
        THEN [ok |-> FALSE, error |-> "invalid FixedNumber string value"]
        ELSE IF ~safe
        THEN [ok |-> FALSE, error |-> "too many decimals for format"]
        ELSE [ok |-> TRUE, value |-> IF negative THEN -abs ELSE abs]

\* strip leading zeros of the whole part, leaving at least one digit before "."
RECURSIVE TrimWhole(_)
TrimWhole(s) ==
    IF Len(s) >= 2 /\ s[1] = "0" /\ s[2] # "." THEN TrimWhole(Tail(s)) ELSE s

\* strip trailing zeros of the fraction, leaving at least one digit after "."
RECURSIVE TrimDecimal(_)
TrimDecimal(s) ==
    IF Len(s) >= 2 /\ s[Len(s)] = "0" /\ s[Len(s) - 1] # "."
    THEN TrimDecimal(SubSeq(s, 1, Len(s) - 1)) ELSE s

\* a formatting that keeps every digit of the fraction
formatUnitsPadded(value, decimals) ==
    LET negative == value < 0
        str      == NatToString(IF negative THEN -value ELSE value)
        padded   == Repeat("0", IF Len(str) <= decimals
                                 THEN decimals + 1 - Len(str) ELSE 0) \o str
        index    == Len(padded) - decimals
        pointed  == SubSeq(padded, 1, index) \o <<".">> \o From(padded, index + 1)
    IN  IF decimals = 0 THEN BigIntToString(value)
        ELSE IF negative THEN <<"-">> \o pointed ELSE pointed

formatUnits(value, decimals) ==
    LET negative == value < 0
        str      == NatToString(IF negative THEN -value ELSE value)
        padded   == Repeat("0", IF Len(str) <= decimals
                                 THEN decimals + 1 - Len(str) ELSE 0) \o str
        index    == Len(padded) - decimals
        pointed  == SubSeq(padded, 1, index) \o <<".">> \o From(padded, index + 1)
        trimmed  == TrimDecimal(TrimWhole(pointed))
    IN  IF decimals = 0 THEN BigIntToString(value)
        ELSE IF negative THEN <<"-">> \o trimmed ELSE trimmed

(***************************************************************************)
(* Contract addresses, fee rate and token registry of the batch handlers.  *)
(***************************************************************************)
SPRAAY_V2 == "0x1646452F98E36A3c9Cfc3eDD8868221E207B5eEC"
SPRAAY_V3 == "0x3eFf027045230A277293aC27bd571FBC729e0dcE"

\* 0.3% default protocol fee
SPRAAY_FEE_BPS == 30

\* recipients.length > 200 is refused by the execute handlers
MaxRecipients == 200

USDC_ADDRESS == <<"0", "x", "8", "3", "3", "5", "8", "9", "f", "C", "D", "6", "e", "D", "b", "6", "E", "0", "8", "f", "4", "c", "7", "C", "3", "2", "D", "4", "f", "7", "1", "b", "5", "4", "b", "d", "A", "0", "2", "9", "1", "3">>
USDT_ADDRESS == <<"0", "x", "f", "d", "e", "4", "C", "9", "6", "c", "8", "5", "9", "3", "5", "3", "6", "E", "3", "1", "F", "2", "2", "9", "E", "A", "8", "f", "3", "7", "b", "2", "A", "D", "a", "2", "6", "9", "9", "b", "b", "2">>
EURC_ADDRESS == <<"0", "x", "6", "0", "a", "3", "E", "3", "5", "C", "c", "3", "0", "2", "b", "F", "A", "4", "4", "C", "b", "2", "8", "8", "B", "c", "5", "a", "4", "F", "3", "1", "6", "F", "d", "b", "1", "a", "d", "b", "4", "2">>
DAI_ADDRESS == <<"0", "x", "5", "0", "c", "5", "7", "2", "5", "9", "4", "9", "A", "6", "F", "0", "c", "7", "2", "E", "6", "C", "4", "a", "6", "4", "1", "F", "2", "4", "0", "4", "9", "A", "9", "1", "7", "D", "B", "0", "C", "b">>
\* addresses of the swap routes' token table
WETH_ADDRESS == <<"0", "x", "4", "2", "0", "0", "0", "0", "0", "0", "0", "0", "0", "0", "0", "0", "0", "0", "0", "0", "0", "0", "0", "0", "0", "0", "0", "0", "0", "0", "0", "0", "0", "0", "0", "0", "0", "0", "0", "0", "0", "6">>
CBBTC_ADDRESS == <<"0", "x", "c", "b", "B", "7", "C", "0", "0", "0", "0", "a", "B", "8", "8", "B", "4", "7", "3", "b", "1", "f", "5", "a", "F", "d", "9", "e", "f", "8", "0", "8", "4", "4", "0", "e", "e", "d", "3", "3", "B", "f">>
AERO_ADDRESS == <<"0", "x", "9", "4", "0", "1", "8", "1", "a", "9", "4", "A", "3", "5", "A", "4", "5", "6", "9", "E", "4", "5", "2", "9", "A", "3", "C", "D", "f", "B", "7", "4", "e", "3", "8", "F", "D", "9", "8", "6", "3", "1">>
DEGEN_ADDRESS == <<"0", "x", "4", "e", "d", "4", "E", "8", "6", "2", "8", "6", "0", "b", "e", "D", "5", "1", "a", "9", "5", "7", "0", "b", "9", "6", "d", "8", "9", "a", "F", "5", "E", "1", "B", "0", "E", "f", "e", "f", "e", "d">>
BRETT_ADDRESS == <<"0", "x", "5", "3", "2", "f", "2", "7", "1", "0", "1", "9", "6", "5", "d", "d", "1", "6", "4", "4", "2", "E", "5", "9", "d", "4", "0", "6", "7", "0", "F", "a", "F", "5", "e", "B", "B", "1", "4", "2", "E", "4">>
TOSHI_ADDRESS == <<"0", "x", "A", "C", "1", "B", "d", "2", "4", "8", "6", "a", "A", "f", "3", "B", "5", "C", "0", "f", "c", "3", "F", "d", "8", "6", "8", "5", "5", "8", "b", "0", "8", "2", "a", "5", "3", "1", "B", "2", "B", "4">>
USDBC_ADDRESS == <<"0", "x", "d", "9", "a", "A", "E", "c", "8", "6", "B", "6", "5", "D", "8", "6", "f", "6", "A", "7", "B", "5", "B", "1", "b", "0", "c", "4", "2", "F", "F", "A", "5", "3", "1", "7", "1", "0", "b", "6", "C", "A">>

USDC == <<"U", "S", "D", "C">>
USDT == <<"U", "S", "D", "T">>
EURC == <<"E", "U", "R", "C">>
DAI == <<"D", "A", "I">>
CUSTOM == <<"C", "U", "S", "T", "O", "M">>

\* feeBps: 0 = use default (30 bps)
BASE_TOKENS ==
    (USDC :> [address |-> USDC_ADDRESS, symbol |-> USDC, decimals |-> 6, feeBps |-> 0])
 @@ (USDT :> [address |-> USDT_ADDRESS, symbol |-> USDT, decimals |-> 6, feeBps |-> 0])
 @@ (EURC :> [address |-> EURC_ADDRESS, symbol |-> EURC, decimals |-> 6, feeBps |-> 25])
 @@ (DAI :> [address |-> DAI_ADDRESS, symbol |-> DAI, decimals |-> 18, feeBps |-> 0])

\* Object.keys(BASE_TOKENS), in insertion order
BASE_TOKEN_KEYS == <<USDC, USDT, EURC, DAI>>

\* JavaScript `a || b` on numbers: 0 is falsy
OrNumber(a, b) == IF a = 0 THEN b ELSE a

\* `${feeBps / 100}%`: the shortest decimal of feeBps / 100, then "%"
FeePercent(feeBps) ==
    LET whole == NatToString(feeBps \div 100)
        cents == feeBps % 100
    IN  (IF cents = 0 THEN whole
         ELSE IF cents % 10 = 0 THEN whole \o <<".", DigitChar(cents \div 10)>>
         ELSE whole \o <<".", DigitChar(cents \div 10), DigitChar(cents % 10)>>)
        \o <<"%">>

(***************************************************************************)
(* ethers ABI encoding (Interface.encodeFunctionData).  The calldata is    *)
(* kept as the function name and its encoded arguments: the encoding is    *)
(* injective, and it throws on an argument that does not fit its type.     *)
(***************************************************************************)
\* the address literals of the source, which carry their EIP-55 checksum
ChecksummedLiterals ==
    {USDC_ADDRESS, USDT_ADDRESS, EURC_ADDRESS, DAI_ADDRESS, WETH_ADDRESS,
     CBBTC_ADDRESS, AERO_ADDRESS, DEGEN_ADDRESS, BRETT_ADDRESS, TOSHI_ADDRESS,
     USDBC_ADDRESS}

\* ethers getAddress: 40 hex digits with an optional 0x; a literal that mixes
\* upper and lower case letters must carry the right checksum
isAddress(a) ==
    LET hex == IF startsWith0x(a) THEN From(a, 3) ELSE a
        mixed == (\E i \in 1..Len(hex) : hex[i] \in UpperHex)
                 /\ (\E i \in 1..Len(hex) : hex[i] \in LowerHex)
    IN  /\ Len(hex) = 40
        /\ AllIn(hex, Digits \cup LowerHex \cup UpperHex)
        /\ (mixed => a \in ChecksummedLiterals)

\* the 20 bytes an address argument is encoded to
AddressBytes(a) == toLowerCase(IF startsWith0x(a) THEN From(a, 3) ELSE a)

\* first position of the recipient tuples whose address or uint256 amount the
\* coder refuses, or 0 when every tuple encodes
FirstBadTuple(recipients) ==
    LET bad == {i \in 1..Len(recipients) :
                   ~isAddress(recipients[i].recipient) \/ recipients[i].amount < 0}
    IN  IF bad = {} THEN 0 ELSE CHOOSE i \in bad : \A j \in bad : i <= j

EncodeTuples(recipients) ==
    [i \in 1..Len(recipients) |->
        [recipient |-> AddressBytes(recipients[i].recipient),
         amount |-> recipients[i].amount]]

\* v2Interface / v3Interface .encodeFunctionData(name, args); args holds the
\* token and the recipient tuples and, for sprayTokenWithMeta, memo and agentId
encodeFunctionData(name, args) ==
    LET bad == FirstBadTuple(args.recipients)
        token == AddressBytes(args.token)
        tuples == EncodeTuples(args.recipients)
    IN  IF ~isAddress(args.token)
        THEN [ok |-> FALSE, error |-> "invalid address"]
        ELSE IF bad # 0 /\ ~isAddress(args.recipients[bad].recipient)
        THEN [ok |-> FALSE, error |-> "invalid address"]
        ELSE IF bad # 0
        THEN [ok |-> FALSE, error |-> "value out-of-bounds"]
        ELSE [ok |-> TRUE,
              data |-> IF "memo" \in DOMAIN args
                       THEN [name |-> name, token |-> token, recipients |-> tuples,
                             memo |-> args.memo, agentId |-> args.agentId]
                       ELSE [name |-> name, token |-> token, recipients |-> tuples]]

(***************************************************************************)
(* Requests and responses.  A request body is a record that holds the      *)
(* fields the client sent; a destructuring default applies to a field that *)
(* is absent.                                                              *)
(***************************************************************************)
\* const { field = default } = req.body
Field(body, field, default) == IF field \in DOMAIN body THEN body[field] ELSE default

\* res.status(code).json({ error })
ErrorResponse(code, message) == [status |-> code, error |-> message]

\* position of the first amount parseUnits throws on, or 0
FirstThrow(parsed) ==
    LET bad == {i \in 1..Len(parsed) : ~parsed[i].ok}
    IN  IF bad = {} THEN 0 ELSE CHOOSE i \in bad : \A j \in bad : i <= j

\* sum of the parsed amounts at positions lo..hi (halving keeps the
\* evaluation shallow for lists of 200 entries)
RECURSIVE SumRange(_, _, _)
SumRange(amounts, lo, hi) ==
    IF lo > hi THEN 0
    ELSE IF lo = hi THEN amounts[lo].value
    ELSE LET mid == (lo + hi) \div 2
         IN  SumRange(amounts, lo, mid) + SumRange(amounts, mid + 1, hi)

\* let totalRaw = BigInt(0); for (const r of ...) totalRaw += r.amount
TotalRaw(amounts) == SumRange(amounts, 1, Len(amounts))

\* memo || null, agentId || null: <<>> stands for null
OrNull(present, value) == IF present THEN <<value>> ELSE <<>>

\* CountError with the limit compared by >= (off by one)
CountErrorOffByOne(body) ==
    IF "recipients" \notin DOMAIN body \/ Len(body.recipients) = 0
    THEN "recipients array required"
    ELSE IF Len(body.recipients) >= MaxRecipients
    THEN "Maximum 200 recipients"
    ELSE "none"

\* the recipient-count checks of the execute handlers
CountError(body) ==
    IF "recipients" \notin DOMAIN body \/ Len(body.recipients) = 0
    THEN "recipients array required"
    ELSE IF Len(body.recipients) > MaxRecipients
    THEN "Maximum 200 recipients"
    ELSE "none"

\* FeeRaw rounding the fee up instead of down
FeeRawRoundUp(totalRaw, feeBps) == BigIntDiv(totalRaw * feeBps + 9999, 10000)

\* const feeRaw = (totalRaw * BigInt(feeBps)) / BigInt(10000)
FeeRaw(totalRaw, feeBps) == BigIntDiv(totalRaw * feeBps, 10000)

(***************************************************************************)
(* V2 handlers: USDC only.                                                 *)
(***************************************************************************)
\* approvalRequired of batchPaymentHandler
ApprovalV2(tokenAddress, totalWithFee) ==
    [token |-> tokenAddress, spender |-> SPRAAY_V2,
     amount |-> BigIntToString(totalWithFee)]

\* POST /api/v1/batch/execute
batchPaymentHandler(body) ==
    IF CountError(body) # "none" THEN ErrorResponse(400, CountError(body))
    ELSE
    LET recipients == body.recipients
        BASE_USDC == BASE_TOKENS[USDC].address
        parsed == [i \in 1..Len(recipients) |-> parseUnits(recipients[i].amount, 6)]
        thrown == FirstThrow(parsed)
        onchainRecipients == [i \in 1..Len(recipients) |->
                                 [recipient |-> recipients[i].address,
                                  amount |-> parsed[i].value]]
        totalRaw == TotalRaw(parsed)
        feeRaw == FeeRaw(totalRaw, SPRAAY_FEE_BPS)
        totalWithFee == totalRaw + feeRaw
        calldata == encodeFunctionData("sprayToken",
                        [token |-> BASE_USDC, recipients |-> onchainRecipients])
    IN  IF thrown # 0 THEN ErrorResponse(500, parsed[thrown].error)
        ELSE IF ~calldata.ok THEN ErrorResponse(500, calldata.error)
        ELSE [status |-> 200,
              success |-> TRUE,
              contract |-> SPRAAY_V2,
              version |-> "v2",
              token |-> USDC,
              tokenAddress |-> BASE_USDC,
              recipientCount |-> Len(recipients),
              totalAmount |-> formatUnits(totalRaw, 6),
              fee |-> formatUnits(feeRaw, 6),
              totalWithFee |-> formatUnits(totalWithFee, 6),
              transaction |-> [to |-> SPRAAY_V2, data |-> calldata.data,
                               value |-> <<"0">>, chainId |-> 8453],
              approvalRequired |-> ApprovalV2(BASE_USDC, totalWithFee)]

\* POST /api/v1/batch/estimate
batchEstimateHandler(body) ==
    IF "recipients" \notin DOMAIN body
    THEN ErrorResponse(400, "recipients array required")
    ELSE
    LET recipients == body.recipients
        parsed == [i \in 1..Len(recipients) |-> parseUnits(recipients[i].amount, 6)]
        thrown == FirstThrow(parsed)
        totalRaw == TotalRaw(parsed)
        feeRaw == FeeRaw(totalRaw, SPRAAY_FEE_BPS)
    IN  IF thrown # 0 THEN ErrorResponse(500, parsed[thrown].error)
        ELSE [status |-> 200,
              success |-> TRUE,
              version |-> "v2",
              token |-> USDC,
              recipientCount |-> Len(recipients),
              totalAmount |-> formatUnits(totalRaw, 6),
              fee |-> formatUnits(feeRaw, 6),
              feePercent |-> <<"0", ".", "3", "%">>,
              totalWithFee |-> formatUnits(totalRaw + feeRaw, 6)]

(***************************************************************************)
(* V3 handlers: multi-stablecoin.                                          *)
(***************************************************************************)
\* token resolution of batchPaymentV3Handler
ResolveV3Token(tokenInput) ==
    LET symbol == toUpperCase(tokenInput)
    IN  IF startsWith0x(tokenInput)
        THEN [ok |-> TRUE, address |-> tokenInput, decimals |-> 18,
              symbol |-> CUSTOM, feeBps |-> SPRAAY_FEE_BPS]
        ELSE IF symbol \notin DOMAIN BASE_TOKENS
        THEN [ok |-> FALSE, error |-> "Token not supported"]
        ELSE [ok |-> TRUE,
              address |-> BASE_TOKENS[symbol].address,
              decimals |-> BASE_TOKENS[symbol].decimals,
              symbol |-> BASE_TOKENS[symbol].symbol,
              feeBps |-> OrNumber(BASE_TOKENS[symbol].feeBps, SPRAAY_FEE_BPS)]

\* UseMeta with && in place of ||
UseMetaBoth(memo, agentId) == memo # <<>> /\ agentId > 0

\* if (memo || agentId > 0): the call carries metadata
UseMeta(memo, agentId) == memo # <<>> \/ agentId > 0

\* ApprovalV3 naming the V2 contract as spender
ApprovalV3WrongSpender(tokenAddress, totalWithFee, tokenDecimals) ==
    [token |-> tokenAddress, spender |-> SPRAAY_V2,
     amount |-> BigIntToString(totalWithFee),
     amountFormatted |-> formatUnits(totalWithFee, tokenDecimals)]

\* approvalRequired of batchPaymentV3Handler
ApprovalV3(tokenAddress, totalWithFee, tokenDecimals) ==
    [token |-> tokenAddress, spender |-> SPRAAY_V3,
     amount |-> BigIntToString(totalWithFee),
     amountFormatted |-> formatUnits(totalWithFee, tokenDecimals)]

\* POST /api/v3/batch/execute
batchPaymentV3Handler(body) ==
    LET tokenInput == Field(body, "token", USDC)
        memo == Field(body, "memo", <<>>)
        agentId == Field(body, "agentId", 0)
        countError == CountError(body)
        resolved == ResolveV3Token(tokenInput)
    IN  IF countError # "none" THEN ErrorResponse(400, countError)
        ELSE IF ~resolved.ok THEN ErrorResponse(400, resolved.error)
        ELSE
        LET recipients == body.recipients
            tokenAddress == resolved.address
            tokenDecimals == resolved.decimals
            tokenSymbol == resolved.symbol
            tokenFeeBps == resolved.feeBps
            parsed == [i \in 1..Len(recipients) |->
                          parseUnits(recipients[i].amount, tokenDecimals)]
            thrown == FirstThrow(parsed)
            onchainRecipients == [i \in 1..Len(recipients) |->
                                     [recipient |-> recipients[i].address,
                                      amount |-> parsed[i].value]]
            totalRaw == TotalRaw(parsed)
            feeRaw == FeeRaw(totalRaw, tokenFeeBps)
            totalWithFee == totalRaw + feeRaw
            calldata ==
                IF UseMeta(memo, agentId)
                THEN encodeFunctionData("sprayTokenWithMeta",
                         [token |-> tokenAddress, recipients |-> onchainRecipients,
                          memo |-> memo, agentId |-> agentId])
                ELSE encodeFunctionData("sprayToken",
                         [token |-> tokenAddress, recipients |-> onchainRecipients])
        IN  IF thrown # 0 THEN ErrorResponse(500, parsed[thrown].error)
            ELSE IF ~calldata.ok THEN ErrorResponse(500, calldata.error)
            ELSE [status |-> 200,
                  success |-> TRUE,
                  contract |-> SPRAAY_V3,
                  version |-> "v3",
                  token |-> [symbol |-> tokenSymbol, address |-> tokenAddress,
                             decimals |-> tokenDecimals],
                  batch |-> [recipientCount |-> Len(recipients),
                             totalAmount |-> formatUnits(totalRaw, tokenDecimals),
                             fee |-> formatUnits(feeRaw, tokenDecimals),
                             feePercent |-> FeePercent(tokenFeeBps),
                             totalWithFee |-> formatUnits(totalWithFee, tokenDecimals)],
                  transaction |-> [to |-> SPRAAY_V3, data |-> calldata.data,
                                   value |-> <<"0">>, chainId |-> 8453],
                  approvalRequired |->
                      ApprovalV3(tokenAddress, totalWithFee, tokenDecimals),
                  meta |-> [memo |-> OrNull(memo # <<>>, memo),
                            agentId |-> OrNull(agentId # 0, agentId)]]

\* ResolveEstimateToken that ignores the per-token fee override
ResolveEstimateTokenDefaultFee(tokenInput) ==
    LET symbol == IF startsWith0x(tokenInput) THEN CUSTOM ELSE toUpperCase(tokenInput)
        known == symbol \in DOMAIN BASE_TOKENS
    IN  [symbol |-> symbol,
         decimals |-> IF known THEN OrNumber(BASE_TOKENS[symbol].decimals, 18) ELSE 18,
         feeBps |-> SPRAAY_FEE_BPS]

\* token resolution of batchEstimateV3Handler
ResolveEstimateToken(tokenInput) ==
    LET symbol == IF startsWith0x(tokenInput) THEN CUSTOM ELSE toUpperCase(tokenInput)
        known == symbol \in DOMAIN BASE_TOKENS
    IN  [symbol |-> symbol,
         decimals |-> IF known THEN OrNumber(BASE_TOKENS[symbol].decimals, 18) ELSE 18,
         feeBps |-> IF known THEN OrNumber(BASE_TOKENS[symbol].feeBps, SPRAAY_FEE_BPS)
                    ELSE SPRAAY_FEE_BPS]

\* POST /api/v3/batch/estimate
batchEstimateV3Handler(body) ==
    IF "recipients" \notin DOMAIN body
    THEN ErrorResponse(400, "recipients array required")
    ELSE
    LET tokenInput == Field(body, "token", USDC)
        recipients == body.recipients
        resolved == ResolveEstimateToken(tokenInput)
        decimals == resolved.decimals
        feeBps == resolved.feeBps
        parsed == [i \in 1..Len(recipients) |-> parseUnits(recipients[i].amount, decimals)]
        thrown == FirstThrow(parsed)
        totalRaw == TotalRaw(parsed)
        feeRaw == FeeRaw(totalRaw, feeBps)
    IN  IF thrown # 0 THEN ErrorResponse(500, parsed[thrown].error)
        ELSE [status |-> 200,
              success |-> TRUE,
              version |-> "v3",
              token |-> resolved.symbol,
              recipientCount |-> Len(recipients),
              totalAmount |-> formatUnits(totalRaw, decimals),
              fee |-> formatUnits(feeRaw, decimals),
              feePercent |-> FeePercent(feeBps),
              totalWithFee |-> formatUnits(totalRaw + feeRaw, decimals)]

\* GET /api/v3/tokens
tokensHandler ==
    [status |-> 200,
     success |-> TRUE,
     chain |-> "base",
     chainId |-> 8453,
     contract |-> SPRAAY_V3,
     defaultFeeBps |-> SPRAAY_FEE_BPS,
     tokens |-> [i \in 1..Len(BASE_TOKEN_KEYS) |->
                    LET info == BASE_TOKENS[BASE_TOKEN_KEYS[i]]
                    IN  [symbol |-> BASE_TOKEN_KEYS[i],
                         address |-> info.address,
                         decimals |-> info.decimals,
                         feeBps |-> OrNumber(info.feeBps, SPRAAY_FEE_BPS),
                         feePercent |-> FeePercent(OrNumber(info.feeBps, SPRAAY_FEE_BPS))]]]

(***************************************************************************)
(* Usage counters (routes/health.ts).                                      *)
(***************************************************************************)
InitialStats ==
    [ai_chat |-> 0, ai_models |-> 0, batch_execute |-> 0,
     batch_estimate |-> 0, swap_quote |-> 0, swap_tokens |-> 0]

\* stats[endpoint] = (stats[endpoint] || 0) + 1
trackRequest(counters, endpoint) ==
    IF endpoint \in DOMAIN counters
    THEN [counters EXCEPT ![endpoint] = @ + 1]
    ELSE counters @@ (endpoint :> 1)

RECURSIVE SumOver(_, _)
SumOver(counters, keys) ==
    IF keys = {} THEN 0
    ELSE LET k == CHOOSE x \in keys : TRUE
         IN  counters[k] + SumOver(counters, keys \ {k})

\* Object.values(stats).reduce((a, b) => a + b, 0)
totalRequests(counters) == SumOver(counters, DOMAIN counters)

(***************************************************************************)
(* The requests of the model.                                              *)
(***************************************************************************)
R1 == <<"0", "x">> \o Repeat("1", 40)
R2 == <<"0", "x">> \o Repeat("2", 40)
\* not a 20-byte identifier
BadRecipient == <<"0", "x", "1", "2", "3">>
\* an ERC-20 that is in no table of the batch handlers (DEGEN)
CustomToken == <<"0", "x", "4", "e", "d", "4", "e", "8", "6", "2", "8", "6", "0", "b", "e", "d", "5", "1", "a", "9", "5", "7", "0", "b", "9", "6", "d", "8", "9", "a", "f", "5", "e", "1", "b", "0", "e", "f", "e", "f", "e", "d">>
\* the native-asset sentinel, address(0)
NativeToken == <<"0", "x">> \o Repeat("0", 40)
\* starts with 0x and is no address
BadTokenAddress == <<"0", "x", "Z", "Z">>

\* human amounts for a token of 6 decimals
Amount_0_0002 == <<"0", ".", "0", "0", "0", "2">>
Amount_0_000133 == <<"0", ".", "0", "0", "0", "1", "3", "3">>
AmountNegative == <<"-", "0", ".", "0", "0", "0", "0", "0", "1">>
AmountZero == <<"0">>
AmountNotANumber == <<"a", "b", "c">>
AmountSevenDigits == <<"0", ".", "0", "0", "0", "0", "0", "0", "1">>
Amount_10_00 == <<"1", "0", ".", "0", "0">>
Amount_25_50 == <<"2", "5", ".", "5", "0">>
\* human amounts for a token of 18 decimals
Amount_200_wei == <<"0", ".", "0", "0", "0", "0", "0", "0", "0", "0", "0", "0", "0", "0", "0", "0", "0", "2", "0", "0">>
AmountNegativeWei == <<"-", "0", ".", "0", "0", "0", "0", "0", "0", "0", "0", "0", "0", "0", "0", "0", "0", "0", "0", "0", "1">>
AmountNineteenDigits == <<"0", ".", "0", "0", "0", "0", "0", "0", "0", "0", "0", "0", "0", "0", "0", "0", "0", "0", "0", "0", "1">>

Entry(address, amount) == [address |-> address, amount |-> amount]

Entries6 ==
    {Entry(R1, Amount_0_0002), Entry(R2, Amount_0_000133), Entry(R2, AmountNegative),
     Entry(R1, AmountZero), Entry(R1, AmountNotANumber), Entry(R1, AmountSevenDigits),
     Entry(BadRecipient, Amount_0_0002)}

Entries18 ==
    {Entry(R1, Amount_200_wei), Entry(R2, AmountNegativeWei),
     Entry(R1, AmountNineteenDigits), Entry(BadRecipient, Amount_200_wei)}

\* token inputs that select 6 decimals, and token inputs that select 18 or none
TokenInputs6 == {<<"u", "s", "d", "c">>, EURC, <<"U", "s", "d", "t">>}
TokenInputs18 ==
    {DAI, CustomToken, NativeToken, EURC_ADDRESS, BadTokenAddress,
     <<"F", "O", "O">>}

\* every list of at most MaxLen entries
ListsOf(entries) == UNION {[1..n -> entries] : n \in 0..MaxLen}

\* [(R1, "10.00"), (R2, "25.50")]
ExampleRecipients == <<Entry(R1, Amount_10_00), Entry(R2, Amount_25_50)>>

\* lists at the limit of the recipient count
LongLists ==
    {[i \in 1..n |-> Entry(R1, Amount_0_0002)] :
        n \in {MaxRecipients - 1, MaxRecipients, MaxRecipients + 1}}

\* [(R1, "10.00")] and [(R2, "25.50")]
SingleRecipients == {<<ExampleRecipients[i]>> : i \in 1..Len(ExampleRecipients)}

Lists6 == ListsOf(Entries6) \cup LongLists \cup {ExampleRecipients} \cup SingleRecipients

Memos == {<<>>, <<"J", "a", "n">>}
AgentIds == {0, 42}

\* bodies of the V2 requests: the token is always USDC
V2Bodies ==
    {[recipients |-> l] : l \in Lists6} \cup {[memo |-> <<>>]}

\* bodies of the V3 requests
V3Bodies ==
    {[recipients |-> l] : l \in Lists6}
    \cup {[memo |-> <<>>]}
    \cup {[token |-> t, recipients |-> l] : t \in TokenInputs6, l \in ListsOf(Entries6)}
    \cup {[token |-> t, recipients |-> l] : t \in TokenInputs18, l \in ListsOf(Entries18)}
    \cup {[token |-> USDC, recipients |-> ExampleRecipients, memo |-> m, agentId |-> a] :
             m \in Memos, a \in AgentIds}
    \cup {[token |-> USDC, recipients |-> ExampleRecipients, agentId |-> a] : a \in AgentIds}
    \cup {[token |-> USDC, recipients |-> ExampleRecipients, memo |-> m] : m \in Memos}

NoRequest == [route |-> "none"]
NoResponse == [status |-> 0]

\* let priceCache = null
NoCache == [timestamp |-> -1]
\* a price request before it arrives
NotStarted == [phase |-> "not started"]
PriceRequestIds == 1..MaxPriceRequests

(***************************************************************************)
(* The gateway as a state machine: one action per route.                   *)
(***************************************************************************)
Init ==
    /\ stats = InitialStats
    /\ request = NoRequest
    /\ response = NoResponse
    /\ probes = <<>>
    /\ priceCache = NoCache
    /\ clock = 0
    /\ priceRequests = [id \in PriceRequestIds |-> NotStarted]
    /\ priceResponse = NoResponse

\* a handler runs when no response is pending and the model still has requests
Idle == response = NoResponse /\ totalRequests(stats) < MaxRequests

BatchExecute ==
    \E body \in V2Bodies :
        /\ Idle
        /\ stats' = trackRequest(stats, "/api/v1/batch/execute")
        /\ request' = [route |-> "POST /api/v1/batch/execute", body |-> body]
        /\ response' = batchPaymentHandler(body)
        /\ UNCHANGED <<probes, feed>>

BatchEstimate ==
    \E body \in V2Bodies :
        /\ Idle
        /\ stats' = trackRequest(stats, "/api/v1/batch/estimate")
        /\ request' = [route |-> "POST /api/v1/batch/estimate", body |-> body]
        /\ response' = batchEstimateHandler(body)
        /\ UNCHANGED <<probes, feed>>

BatchExecuteV3 ==
    \E body \in V3Bodies :
        /\ Idle
        /\ stats' = trackRequest(stats, "/api/v3/batch/execute")
        /\ request' = [route |-> "POST /api/v3/batch/execute", body |-> body]
        /\ response' = batchPaymentV3Handler(body)
        /\ UNCHANGED <<probes, feed>>

BatchEstimateV3 ==
    \E body \in V3Bodies :
        /\ Idle
        /\ stats' = trackRequest(stats, "/api/v3/batch/estimate")
        /\ request' = [route |-> "POST /api/v3/batch/estimate", body |-> body]
        /\ response' = batchEstimateV3Handler(body)
        /\ UNCHANGED <<probes, feed>>

Tokens ==
    /\ Idle
    /\ stats' = trackRequest(stats, "/api/v3/tokens")
    /\ request' = [route |-> "GET /api/v3/tokens"]
    /\ response' = tokensHandler
    /\ UNCHANGED <<probes, feed>>

\* the response is sent and the request is over
Respond ==
    /\ response # NoResponse
    /\ request' = NoRequest
    /\ response' = NoResponse
    /\ probes' = <<>>
    /\ UNCHANGED <<stats, feed>>

Next ==
    \/ BatchExecute
    \/ BatchEstimate
    \/ BatchExecuteV3
    \/ BatchEstimateV3
    \/ Tokens
    \/ Respond

Spec == Init /\ [][Next]_vars

(***************************************************************************)
(* Swap quotes: token table, resolveToken, parseFloat and Number to string *)
(* conversion, and the search of getUniswapQuote over the fee tiers.       *)
(***************************************************************************)
MANGOSWAP_CONTRACT == "0xb81fea65B45D743AB62a1A2B351f4f92fb1d4D16"

WETH == <<"W", "E", "T", "H">>
ETH == <<"E", "T", "H">>
cbBTC == <<"c", "b", "B", "T", "C">>
AERO == <<"A", "E", "R", "O">>
DEGEN == <<"D", "E", "G", "E", "N">>
BRETT == <<"B", "R", "E", "T", "T">>
TOSHI == <<"T", "O", "S", "H", "I">>
USDbC == <<"U", "S", "D", "b", "C">>

\* the token table of the swap routes (name and pools are not read by the quote)
SWAP_TOKENS ==
    (USDC :> [address |-> USDC_ADDRESS, symbol |-> USDC, decimals |-> 6])
 @@ (WETH :> [address |-> WETH_ADDRESS, symbol |-> WETH, decimals |-> 18])
 @@ (ETH :> [address |-> WETH_ADDRESS, symbol |-> WETH, decimals |-> 18])
 @@ (cbBTC :> [address |-> CBBTC_ADDRESS, symbol |-> cbBTC, decimals |-> 8])
 @@ (AERO :> [address |-> AERO_ADDRESS, symbol |-> AERO, decimals |-> 18])
 @@ (DEGEN :> [address |-> DEGEN_ADDRESS, symbol |-> DEGEN, decimals |-> 18])
 @@ (BRETT :> [address |-> BRETT_ADDRESS, symbol |-> BRETT, decimals |-> 18])
 @@ (TOSHI :> [address |-> TOSHI_ADDRESS, symbol |-> TOSHI, decimals |-> 18])
 @@ (USDbC :> [address |-> USDBC_ADDRESS, symbol |-> USDbC, decimals |-> 6])
 @@ (DAI :> [address |-> DAI_ADDRESS, symbol |-> DAI, decimals |-> 18])

\* Object.values(BASE_TOKENS) of the swap routes, in insertion order
SWAP_TOKEN_KEYS == <<USDC, WETH, ETH, cbBTC, AERO, DEGEN, BRETT, TOSHI, USDbC, DAI>>

\* Common Uniswap V3 fee tiers: 0.05%, 0.3%, 1%
FEE_TIERS == <<500, 3000, 10000>>

\* resolveToken: <<>> stands for null
resolveToken(input) ==
    LET upper == toUpperCase(input)
        found == {i \in 1..Len(SWAP_TOKEN_KEYS) :
                     toLowerCase(SWAP_TOKENS[SWAP_TOKEN_KEYS[i]].address)
                        = toLowerCase(input)}
    IN  IF upper \in DOMAIN SWAP_TOKENS THEN <<SWAP_TOKENS[upper]>>
        ELSE IF found # {}
        THEN <<SWAP_TOKENS[SWAP_TOKEN_KEYS[CHOOSE i \in found : \A j \in found : i <= j]]>>
        ELSE <<>>

\* number of leading characters of s that are in chars
PrefixLength(s, chars) ==
    CHOOSE k \in 0..Len(s) :
        /\ \A i \in 1..k : s[i] \in chars
        /\ k < Len(s) => s[k + 1] \notin chars

\* number of trailing characters of s that are in chars
SuffixLength(s, chars) ==
    CHOOSE k \in 0..Len(s) :
        /\ \A i \in (Len(s) - k + 1)..Len(s) : s[i] \in chars
        /\ k < Len(s) => s[Len(s) - k] \notin chars

\* parseFloat on a string without exponent: the longest decimal prefix,
\* NaN when there is none.  The result is a double: a fraction below 1e-16
\* beside a whole part of at least 1 is less than half a unit in the last
\* place and is rounded away; the other numbers of the model have at most 15
\* significant digits, which a double keeps.
parseFloat(s) ==
    LET signed == Len(s) > 0 /\ s[1] \in {"-", "+"}
        body == IF signed THEN Tail(s) ELSE s
        w == PrefixLength(body, Digits)
        rest == From(body, w + 1)
        pointed == Len(rest) > 0 /\ rest[1] = "."
        f == IF pointed THEN PrefixLength(Tail(rest), Digits) ELSE 0
        whole == SubSeq(body, 1, w)
        decimal == IF pointed THEN SubSeq(Tail(rest), 1, f) ELSE <<>>
    IN  IF w + f = 0 THEN [nan |-> TRUE]
        ELSE [nan |-> FALSE,
              negative |-> signed /\ s[1] = "-",
              whole |-> whole,
              decimal |-> IF ~AllIn(whole, {"0"}) /\ PrefixLength(decimal, {"0"}) >= 16
                          THEN <<>>
                          ELSE decimal]

\* isNaN(amount) || amount <= 0
NotPositive(amount) ==
    \/ amount.nan
    \/ amount.negative
    \/ AllIn(amount.whole \o amount.decimal, {"0"})

\* Number.prototype.toString of a positive number below 1e21 with at most 15
\* significant digits: plain decimal notation from 1e-6 on, exponent below
NumberToString(amount) ==
    LET w == From(amount.whole, PrefixLength(amount.whole, {"0"}) + 1)
        d == SubSeq(amount.decimal, 1,
                    Len(amount.decimal) - SuffixLength(amount.decimal, {"0"}))
        zeros == PrefixLength(d, {"0"})
        sig == From(d, zeros + 1)
    IN  IF w = <<>> /\ d # <<>> /\ zeros >= 6
        THEN <<sig[1]>> \o (IF Len(sig) > 1 THEN <<".">> \o Tail(sig) ELSE <<>>)
             \o <<"e", "-">> \o NatToString(zeros + 1)
        ELSE (IF w = <<>> THEN <<"0">> ELSE w)
             \o (IF d = <<>> THEN <<>> ELSE <<".">> \o d)

(***************************************************************************)
(* The quoting contract as the search sees it: for each fee tier, the pool *)
(* of the direct pair, of tokenIn -> WETH and of WETH -> tokenOut.  A pool *)
(* answers amountIn * rate; a missing pool and a transport error both make *)
(* staticCall throw.                                                       *)
(***************************************************************************)
NoPool == [state |-> "no pool"]
Down == [state |-> "transport error"]
Pool(rate, gas) == [state |-> "pool", rate |-> rate, gas |-> gas]
\* a pool whose liquidity gives out at `cap`
ShallowPool(rate, cap, gas) ==
    [state |-> "shallow pool", rate |-> rate, cap |-> cap, gas |-> gas]

\* quoter.quoteExactInputSingle.staticCall({ ..., amountIn, fee, ... })
staticCall(pool, amountIn) ==
    IF pool.state = "pool"
    THEN [ok |-> TRUE, amountOut |-> amountIn * pool.rate, gasEstimate |-> pool.gas]
    ELSE IF pool.state = "shallow pool"
    THEN [ok |-> TRUE,
          amountOut |-> IF amountIn * pool.rate < pool.cap
                        THEN amountIn * pool.rate ELSE pool.cap,
          gasEstimate |-> pool.gas]
    ELSE [ok |-> FALSE]

NoQuote == [bestQuote |-> <<>>, bestAmountOut |-> 0, bestFee |-> 0]

\* a search over the direct fee tiers that keeps the first answer
RECURSIVE DirectSearchFirstWins(_, _, _, _)
DirectSearchFirstWins(best, i, quoter, amountInWei) ==
    IF i > Len(FEE_TIERS) THEN best
    ELSE LET fee == FEE_TIERS[i]
             result == staticCall(quoter.direct[fee], amountInWei)
             next == IF result.ok /\ result.amountOut > 0 /\ best.bestQuote = <<>>
                     THEN [bestQuote |-> <<[amountOut |-> result.amountOut,
                                            gasEstimate |-> result.gasEstimate,
                                            isMultihop |-> FALSE]>>,
                           bestAmountOut |-> result.amountOut,
                           bestFee |-> fee]
                     ELSE best
         IN  DirectSearchFirstWins(next, i + 1, quoter, amountInWei)

\* the direct fee tiers from the i-th on, keeping the best
RECURSIVE DirectSearch(_, _, _, _)
DirectSearch(best, i, quoter, amountInWei) ==
    IF i > Len(FEE_TIERS) THEN best
    ELSE LET fee == FEE_TIERS[i]
             result == staticCall(quoter.direct[fee], amountInWei)
             next == IF result.ok /\ result.amountOut > best.bestAmountOut
                     THEN [bestQuote |-> <<[amountOut |-> result.amountOut,
                                            gasEstimate |-> result.gasEstimate,
                                            isMultihop |-> FALSE]>>,
                           bestAmountOut |-> result.amountOut,
                           bestFee |-> fee]
                     ELSE best
         IN  DirectSearch(next, i + 1, quoter, amountInWei)

\* the pairs (fee1, fee2) from the k-th on, fee2 varying fastest
RECURSIVE TwoHopSearch(_, _, _, _)
TwoHopSearch(best, k, quoter, amountInWei) ==
    IF k > Len(FEE_TIERS) * Len(FEE_TIERS) THEN best
    ELSE LET fee1 == FEE_TIERS[((k - 1) \div Len(FEE_TIERS)) + 1]
             fee2 == FEE_TIERS[((k - 1) % Len(FEE_TIERS)) + 1]
             midResult == staticCall(quoter.hop1[fee1], amountInWei)
             finalResult == staticCall(quoter.hop2[fee2], midResult.amountOut)
             next == IF midResult.ok /\ finalResult.ok
                        /\ finalResult.amountOut > best.bestAmountOut
                     THEN [bestQuote |-> <<[amountOut |-> finalResult.amountOut,
                                            gasEstimate |-> midResult.gasEstimate
                                                            + finalResult.gasEstimate,
                                            isMultihop |-> TRUE]>>,
                           bestAmountOut |-> finalResult.amountOut,
                           bestFee |-> fee1]
                     ELSE best
         IN  TwoHopSearch(next, k + 1, quoter, amountInWei)

\* bestFee === 500 ? "0.05%" : bestFee === 3000 ? "0.3%" : "1%"
feeTierLabel(bestFee) ==
    IF bestFee = 500 THEN <<"0", ".", "0", "5", "%">>
    ELSE IF bestFee = 3000 THEN <<"0", ".", "3", "%">>
    ELSE <<"1", "%">>

\* getUniswapQuote; executionPrice, a floating-point quotient shown to the
\* client, is left out of the result
getUniswapQuote(tokenIn, tokenOut, amountIn, quoter) ==
    LET parsed == parseUnits(NumberToString(amountIn), tokenIn.decimals)
        amountInWei == parsed.value
        direct == DirectSearch(NoQuote, 1, quoter, amountInWei)
        viaWeth == toLowerCase(tokenIn.address) # toLowerCase(WETH_ADDRESS)
                   /\ toLowerCase(tokenOut.address) # toLowerCase(WETH_ADDRESS)
        best == IF direct.bestQuote = <<>> /\ viaWeth
                THEN TwoHopSearch(direct, 1, quoter, amountInWei)
                ELSE direct
        bestQuote == best.bestQuote[1]
    IN  IF ~parsed.ok THEN [ok |-> FALSE, error |-> parsed.error]
        ELSE IF best.bestQuote = <<>>
        THEN [ok |-> FALSE, error |-> "No liquidity found"]
        ELSE [ok |-> TRUE,
              amountOut |-> formatUnits(bestQuote.amountOut, tokenOut.decimals),
              route |-> IF bestQuote.isMultihop
                        THEN <<tokenIn.symbol, WETH, tokenOut.symbol>>
                        ELSE <<tokenIn.symbol, tokenOut.symbol>>,
              dex |-> "uniswap-v3",
              feeTier |-> feeTierLabel(best.bestFee),
              priceImpact |-> "live",
              gasEstimate |-> BigIntToString(bestQuote.gasEstimate)]

\* the calls getUniswapQuote makes to the quoter, in order: the three direct
\* tiers, then, if none gave a quote and neither token is WETH, for each pair
\* of tiers the first leg and, when it answers, the second
RECURSIVE TwoHopCalls(_, _, _)
TwoHopCalls(k, quoter, amountInWei) ==
    IF k > Len(FEE_TIERS) * Len(FEE_TIERS) THEN <<>>
    ELSE LET fee1 == FEE_TIERS[((k - 1) \div Len(FEE_TIERS)) + 1]
             fee2 == FEE_TIERS[((k - 1) % Len(FEE_TIERS)) + 1]
             midResult == staticCall(quoter.hop1[fee1], amountInWei)
         IN  <<[leg |-> "tokenIn -> WETH", fee |-> fee1]>>
             \o (IF midResult.ok
                 THEN <<[leg |-> "WETH -> tokenOut", fee |-> fee2]>>
                 ELSE <<>>)
             \o TwoHopCalls(k + 1, quoter, amountInWei)

quoterCalls(tokenIn, tokenOut, amountIn, quoter) ==
    LET parsed == parseUnits(NumberToString(amountIn), tokenIn.decimals)
        direct == DirectSearch(NoQuote, 1, quoter, parsed.value)
        viaWeth == toLowerCase(tokenIn.address) # toLowerCase(WETH_ADDRESS)
                   /\ toLowerCase(tokenOut.address) # toLowerCase(WETH_ADDRESS)
    IN  IF ~parsed.ok THEN <<>>
        ELSE [i \in 1..Len(FEE_TIERS) |-> [leg |-> "tokenIn -> tokenOut", fee |-> FEE_TIERS[i]]]
             \o (IF direct.bestQuote = <<>> /\ viaWeth
                 THEN TwoHopCalls(1, quoter, parsed.value)
                 ELSE <<>>)

\* !tokenIn || !tokenOut || !amountIn
MissingParam(query) ==
    \E f \in {"tokenIn", "tokenOut", "amountIn"} : f \notin DOMAIN query \/ query[f] = <<>>

\* the calls to the quoter while swapQuoteHandler serves a query: none unless
\* the query gets as far as getUniswapQuote
swapQuoteCalls(query, quoter) ==
    IF MissingParam(query) THEN <<>>
    ELSE LET tokenInInfo == resolveToken(query.tokenIn)
             tokenOutInfo == resolveToken(query.tokenOut)
             amount == parseFloat(query.amountIn)
         IN  IF tokenInInfo = <<>> \/ tokenOutInfo = <<>> \/ NotPositive(amount)
             THEN <<>>
             ELSE quoterCalls(tokenInInfo[1], tokenOutInfo[1], amount, quoter)

\* GET /api/v1/swap/quote; the counter is bumped only by a quote that succeeds
swapQuoteHandler(query, quoter) ==
    IF MissingParam(query)
    THEN ErrorResponse(400, "Missing required query params: tokenIn, tokenOut, amountIn")
    ELSE
    LET tokenInInfo == resolveToken(query.tokenIn)
        tokenOutInfo == resolveToken(query.tokenOut)
        amount == parseFloat(query.amountIn)
        quote == getUniswapQuote(tokenInInfo[1], tokenOutInfo[1], amount, quoter)
    IN  IF tokenInInfo = <<>>
        THEN [status |-> 400, error |-> "Unknown token", token |-> query.tokenIn]
        ELSE IF tokenOutInfo = <<>>
        THEN [status |-> 400, error |-> "Unknown token", token |-> query.tokenOut]
        ELSE IF NotPositive(amount) THEN ErrorResponse(400, "Invalid amountIn")
        ELSE IF ~quote.ok
        THEN [status |-> 500, error |-> "Failed to get swap quote",
              details |-> quote.error]
        ELSE [status |-> 200,
              tokenIn |-> [symbol |-> tokenInInfo[1].symbol,
                           address |-> tokenInInfo[1].address,
                           amount |-> NumberToString(amount),
                           decimals |-> tokenInInfo[1].decimals],
              tokenOut |-> [symbol |-> tokenOutInfo[1].symbol,
                            address |-> tokenOutInfo[1].address,
                            estimatedAmount |-> quote.amountOut,
                            decimals |-> tokenOutInfo[1].decimals],
              route |-> quote.route,
              dex |-> quote.dex,
              feeTier |-> quote.feeTier,
              priceImpact |-> quote.priceImpact,
              gasEstimate |-> quote.gasEstimate,
              transaction |-> [to |-> MANGOSWAP_CONTRACT, chainId |-> 8453],
              validFor |-> "30 seconds"]

(***************************************************************************)
(* Swap quote requests and the quoter states they meet.                    *)
(***************************************************************************)
\* what a pool of the direct pair, of the first leg, of the second leg can
\* be; a pool of rate 0 answers with an output of 0
DirectPools == {NoPool, Down} \cup {Pool(r, 100000 + r) : r \in 0..MaxRate}
Hop1Pools == {NoPool, Pool(1, 70010), Pool(MaxRate, 70000 + (10 * MaxRate))}
Hop2Pools == {NoPool} \cup {Pool(r, 60000 + r) : r \in 1..MaxRate}

TierSet == {FEE_TIERS[i] : i \in 1..Len(FEE_TIERS)}

\* no pool anywhere
Dry == [direct |-> [f \in TierSet |-> NoPool],
        hop1 |-> [f \in TierSet |-> NoPool],
        hop2 |-> [f \in TierSet |-> NoPool]]

\* every call failing in transport
AllDown == [direct |-> [f \in TierSet |-> Down],
            hop1 |-> [f \in TierSet |-> Down],
            hop2 |-> [f \in TierSet |-> Down]]

\* one direct pool, at 0.3%
OnePool == [Dry EXCEPT !.direct[3000] = Pool(1, 100001)]

\* direct calls that fail or answer 0, one way each
ZeroDirect == (500 :> Pool(0, 100000)) @@ (3000 :> Down) @@ (10000 :> NoPool)

\* pools through WETH of which the second answers 0
ZeroSecondLeg == [Dry EXCEPT !.hop1[500] = Pool(1, 70010), !.hop2[3000] = Pool(0, 60000)]

\* pools through WETH of which two pairs answer the same: the second leg at 1%
\* is shallow, and gives for the answer of the first leg at 0.05% what the
\* second leg at 0.3% gives for the answer of the first leg at 0.3%
TiedPairs ==
    [direct |-> Dry.direct,
     hop1 |-> (500 :> Pool(1, 70010)) @@ (3000 :> Pool(2, 70020)) @@ (10000 :> NoPool),
     hop2 |-> (500 :> NoPool) @@ (3000 :> Pool(1, 60001))
              @@ (10000 :> ShallowPool(2, 3000000, 60002))]

\* pools through WETH beside a transport that fails on some calls
PartlyDown ==
    {[direct |-> [f \in TierSet |-> Down],
      hop1 |-> (500 :> Down) @@ (3000 :> Pool(1, 70010)) @@ (10000 :> NoPool),
      hop2 |-> (500 :> Pool(r, 60000 + r)) @@ (3000 :> Down) @@ (10000 :> Down)] :
        r \in 1..MaxRate}

\* any direct pools and no pool through WETH
QuotersDirect ==
    {[direct |-> d, hop1 |-> Dry.hop1, hop2 |-> Dry.hop2] : d \in [TierSet -> DirectPools]}
    \cup {AllDown}

\* no direct pool that answers above 0, and any pools through WETH
QuotersTwoHop ==
    {[direct |-> d, hop1 |-> h1, hop2 |-> h2] :
        d \in {Dry.direct, ZeroDirect},
        h1 \in [TierSet -> Hop1Pools], h2 \in [TierSet -> Hop2Pools]}
    \cup PartlyDown \cup {ZeroSecondLeg, TiedPairs}

Amount_1_5 == <<"1", ".", "5">>
Amount_2 == <<"2">>
Amount_2abc == <<"2", "a", "b", "c">>
Amount_1_0000001 == <<"1", ".", "0", "0", "0", "0", "0", "0", "1">>
AmountMinusOne == <<"-", "1">>
\* 1.00000000000000000001
AmountTwentyDigits == <<"1", ".">> \o Repeat("0", 19) \o <<"1">>

\* token inputs of the swap routes: symbols in several spellings, addresses
\* of the table, addresses outside the table, and strings that are neither
SwapTokenInputs ==
    {USDC, <<"u", "s", "d", "c">>, WETH, ETH, cbBTC, <<"C", "B", "B", "T", "C">>,
     CBBTC_ADDRESS, toLowerCase(CBBTC_ADDRESS), DAI_ADDRESS,
     EURC_ADDRESS, NativeToken, <<"F", "O", "O">>, BadTokenAddress}

\* queries that end before the quoter is asked
SwapQueriesDry ==
    {[tokenIn |-> a, tokenOut |-> b, amountIn |-> x] :
        a \in SwapTokenInputs, b \in SwapTokenInputs,
        x \in {AmountZero, AmountNotANumber, AmountMinusOne}}
    \cup {[tokenIn |-> USDC, tokenOut |-> DAI], [tokenOut |-> DAI, amountIn |-> Amount_2],
          [tokenIn |-> <<>>, tokenOut |-> DAI, amountIn |-> Amount_2]}

\* amounts in several spellings, of a 6 and of an 8 decimals token
SwapQueriesAmount ==
    {[tokenIn |-> a, tokenOut |-> DAI, amountIn |-> x] :
        a \in {USDC, CBBTC_ADDRESS},
        x \in {Amount_2, Amount_2abc, AmountSevenDigits, Amount_1_0000001,
               AmountTwentyDigits}}

\* queries that reach the quoter with an amount of a 6 or 8 decimals token;
\* the last three name the same token twice
SwapQueriesDirect ==
    {[tokenIn |-> a, tokenOut |-> b, amountIn |-> Amount_1_5] :
        a \in {USDC, CBBTC_ADDRESS}, b \in {DAI, ETH}}
    \cup {[tokenIn |-> USDC, tokenOut |-> b, amountIn |-> Amount_1_5] :
             b \in {USDC, USDC_ADDRESS}}
    \cup {[tokenIn |-> CBBTC_ADDRESS, tokenOut |-> toLowerCase(CBBTC_ADDRESS),
           amountIn |-> Amount_1_5]}

\* a pair that can go through WETH
SwapQueriesTwoHop == {[tokenIn |-> USDC, tokenOut |-> DAI, amountIn |-> Amount_1_5]}

SwapQueries ==
    SwapQueriesDry \cup SwapQueriesAmount \cup SwapQueriesDirect \cup SwapQueriesTwoHop

\* the states of the quoting contract a query is served in
QuotersFor(query) ==
    {Dry}
    \cup (IF query \in SwapQueriesAmount THEN {OnePool} ELSE {})
    \cup (IF query \in SwapQueriesDirect THEN QuotersDirect ELSE {})
    \cup (IF query \in SwapQueriesTwoHop THEN QuotersTwoHop ELSE {})

SwapQuote ==
    \E query \in SwapQueries :
    \E quoter \in QuotersFor(query) :
        /\ Idle
        /\ request' = [route |-> "GET /api/v1/swap/quote", query |-> query,
                       quoter |-> quoter]
        /\ response' = swapQuoteHandler(query, quoter)
        /\ probes' = swapQuoteCalls(query, quoter)
        /\ UNCHANGED feed
        /\ stats' = IF response'.status = 200
                    THEN trackRequest(stats, "swap_quote")
                    ELSE stats

NextSwap ==
    \/ SwapQuote
    \/ Respond

SpecSwap == Init /\ [][NextSwap]_vars

(***************************************************************************)
(* The price feed: GET /api/v1/prices.  A request reads the clock and the  *)
(* cache, then waits for the chain, then builds its response and stores    *)
(* it; other requests run while it waits.                                  *)
(***************************************************************************)
cbETH == <<"c", "b", "E", "T", "H">>
CBETH_ADDRESS == <<"0", "x", "2", "A", "e", "3", "F", "1", "E", "c", "7", "F", "1", "F", "5", "0", "1", "2", "C", "F", "E", "a", "b", "0", "1", "8", "5", "b", "f", "c", "7", "a", "a", "3", "c", "f", "0", "D", "E", "c", "2", "2">>

TOKENS ==
    (USDC :> [address |-> USDC_ADDRESS, decimals |-> 6, symbol |-> USDC])
 @@ (WETH :> [address |-> WETH_ADDRESS, decimals |-> 18, symbol |-> WETH])
 @@ (cbBTC :> [address |-> CBBTC_ADDRESS, decimals |-> 8, symbol |-> cbBTC])
 @@ (cbETH :> [address |-> CBETH_ADDRESS, decimals |-> 18, symbol |-> cbETH])
 @@ (DAI :> [address |-> DAI_ADDRESS, decimals |-> 18, symbol |-> DAI])
 @@ (USDbC :> [address |-> USDBC_ADDRESS, decimals |-> 6, symbol |-> USDbC])
 @@ (AERO :> [address |-> AERO_ADDRESS, decimals |-> 18, symbol |-> AERO])
 @@ (DEGEN :> [address |-> DEGEN_ADDRESS, decimals |-> 18, symbol |-> DEGEN])

CACHE_TTL == 30000

\* what the quoter answers for one whole token: the output in USDC of a
\* direct pool, the output in WETH of a first leg; a second leg is a pool of
\* WETH against USDC
Answer(amountOut) == [state |-> "answer", amountOut |-> amountOut]

\* quoter.quoteExactInputSingle.staticCall of getPrice for one whole token
priceCall(pool) ==
    IF pool.state = "answer" THEN [ok |-> TRUE, amountOut |-> pool.amountOut]
    ELSE [ok |-> FALSE]

\* Number(ethers.formatUnits(amountOut, 6)) as JSON prints it
PriceNumber(amountOut) == NumberToString(parseFloat(formatUnits(amountOut, 6)))

\* the direct tiers from the i-th on: the first answer above 0, <<>> if none
RECURSIVE DirectPrice(_, _)
DirectPrice(market, i) ==
    IF i > Len(FEE_TIERS) THEN <<>>
    ELSE LET result == priceCall(market.direct[FEE_TIERS[i]])
         IN  IF result.ok /\ result.amountOut > 0
             THEN <<PriceNumber(result.amountOut)>>
             ELSE DirectPrice(market, i + 1)

\* the pairs (fee1, fee2) from the k-th on: the first answer above 0
RECURSIVE WethPrice(_, _)
WethPrice(market, k) ==
    IF k > Len(FEE_TIERS) * Len(FEE_TIERS) THEN <<>>
    ELSE LET fee1 == FEE_TIERS[((k - 1) \div Len(FEE_TIERS)) + 1]
             fee2 == FEE_TIERS[((k - 1) % Len(FEE_TIERS)) + 1]
             r1 == priceCall(market.hop1[fee1])
             r2 == staticCall(market.hop2[fee2], r1.amountOut)
         IN  IF r1.ok /\ r2.ok /\ r2.amountOut > 0
             THEN <<PriceNumber(r2.amountOut)>>
             ELSE WethPrice(market, k + 1)

\* getPrice: <<>> stands for null
getPrice(tokenAddress, market) ==
    IF toLowerCase(tokenAddress) = toLowerCase(TOKENS[USDC].address) THEN <<<<"1">>>>
    ELSE LET direct == DirectPrice(market, 1)
         IN  IF direct # <<>> THEN direct
             ELSE IF toLowerCase(tokenAddress) # toLowerCase(TOKENS[WETH].address)
             THEN WethPrice(market, 1)
             ELSE <<>>

\* (req.query.token as string)?.toUpperCase(); <<>> stands for undefined
tokenQueryOf(query) ==
    IF "token" \in DOMAIN query THEN <<toUpperCase(query.token)>> ELSE <<>>

\* a handler that took every parameter outside the table for an absent one
TruthyTableToken(tokenQuery) == tokenQuery # <<>> /\ tokenQuery[1] \in DOMAIN TOKENS

\* a string that is neither undefined nor empty
Truthy(tokenQuery) == tokenQuery # <<>> /\ tokenQuery[1] # <<>>

\* tokenQuery && TOKENS[tokenQuery] ? { [tokenQuery]: TOKENS[tokenQuery] } : TOKENS
tokensToQuery(tokenQuery) ==
    IF Truthy(tokenQuery) /\ tokenQuery[1] \in DOMAIN TOKENS
    THEN {tokenQuery[1]}
    ELSE DOMAIN TOKENS

\* the response body; fetchedAt is not sent: it records when the chain was
\* asked for the prices
priceBody(prices, fetchedAt, time) ==
    [status |-> 200,
     prices |-> prices,
     network |-> "base",
     chainId |-> 8453,
     source |-> "uniswap-v3-onchain",
     timestamp |-> time,
     tokenCount |-> Cardinality(DOMAIN prices),
     fetchedAt |-> fetchedAt]

\* states of the chain: no pool; a direct pool at 0.3%; a direct pool at
\* 0.05% that answers 0 beside pools through WETH.  The chain is in one of
\* the last two when a request asks it.
DryMarket ==
    [direct |-> [f \in TierSet |-> NoPool],
     hop1 |-> [f \in TierSet |-> NoPool],
     hop2 |-> [f \in TierSet |-> NoPool]]
DirectMarket == [DryMarket EXCEPT !.direct[3000] = Answer(1650420000)]
WethMarket ==
    [DryMarket EXCEPT !.direct[500] = Answer(0),
                      !.hop1[3000] = Answer(5),
                      !.hop2[500] = Pool(300000, 60001)]
Markets == {DirectMarket, WethMarket}

\* what getPrice returns for each token of the table in each state of the chain
PriceOf == [market \in Markets |-> [key \in DOMAIN TOKENS |-> getPrice(TOKENS[key].address, market)]]

\* the prices object after Promise.all
fetchPrices(tokenQuery, market) ==
    [key \in tokensToQuery(tokenQuery) |->
        [symbol |-> TOKENS[key].symbol,
         address |-> TOKENS[key].address,
         decimals |-> TOKENS[key].decimals,
         priceUSD |-> PriceOf[market][key]]]

\* req.query of a price request: no token, an empty one, symbols of the
\* table, a symbol outside it
PriceQueries ==
    {<<>>} \cup {[token |-> t] : t \in {<<>>, WETH, <<"w", "e", "t", "h">>, cbBTC, <<"F", "O", "O">>}}

\* a cache check that still accepts an entry of exactly CACHE_TTL
cacheFreshInclusive(now) ==
    priceCache # NoCache /\ now - priceCache.timestamp <= CACHE_TTL

\* priceCache && now - priceCache.timestamp < CACHE_TTL
cacheFresh(now) ==
    priceCache # NoCache /\ now - priceCache.timestamp < CACHE_TTL

\* lines 69-76: the request reads the clock; a fresh cache answers a request
\* without token at once, any other request starts asking the chain.
\* Requests are numbered in the order they arrive.
PricesStart(id) ==
    \E query \in PriceQueries :
        LET now == clock
            tokenQuery == tokenQueryOf(query)
        IN  /\ priceRequests[id] = NotStarted
            /\ \A other \in PriceRequestIds : other < id => priceRequests[other] # NotStarted
            /\ IF cacheFresh(now) /\ ~Truthy(tokenQuery)
               THEN /\ priceResponse' = [id |-> id, query |-> query, at |-> clock,
                                         cached |-> TRUE, body |-> priceCache.data]
                    /\ priceRequests' = [priceRequests EXCEPT ![id] = [phase |-> "done"]]
               ELSE /\ priceRequests' =
                          [priceRequests EXCEPT ![id] =
                              [phase |-> "fetching", query |-> query, now |-> now]]
                    /\ priceResponse' = NoResponse
            /\ UNCHANGED <<priceCache, clock, gateway>>

\* lines 79-96: the chain has answered every getPrice of the request, as
\* early as when the request started or as late as now; the response is
\* built, stored under the time the request started at unless it had a
\* token, and sent
PricesFinish(id) ==
    /\ priceRequests[id].phase = "fetching"
    /\ \E market \in Markets :
       \E fetchedAt \in {priceRequests[id].now, clock} :
          LET r == priceRequests[id]
              tokenQuery == tokenQueryOf(r.query)
              body == priceBody(fetchPrices(tokenQuery, market), fetchedAt, clock)
          IN  /\ priceCache' = IF ~Truthy(tokenQuery)
                               THEN [data |-> body, timestamp |-> r.now]
                               ELSE priceCache
              /\ priceResponse' = [id |-> id, query |-> r.query, at |-> clock,
                                   cached |-> FALSE, body |-> body]
              /\ priceRequests' = [priceRequests EXCEPT ![id] = [phase |-> "done"]]
              /\ UNCHANGED <<clock, gateway>>

\* Date.now() moves on
Tick ==
    /\ clock < MaxTicks * 15000
    /\ clock' = clock + 15000
    /\ priceResponse' = NoResponse
    /\ UNCHANGED <<priceCache, priceRequests, gateway>>

NextPrices ==
    \/ \E id \in PriceRequestIds : PricesStart(id)
    \/ \E id \in PriceRequestIds : PricesFinish(id)
    \/ Tick

SpecPrices == Init /\ [][NextPrices]_vars

(***************************************************************************)
(* What the claims read off a state: the request that was served, and the  *)
(* amounts the response reports.                                           *)
(***************************************************************************)
ExecuteRoutes == {"POST /api/v1/batch/execute", "POST /api/v3/batch/execute"}
EstimateRoutes == {"POST /api/v1/batch/estimate", "POST /api/v3/batch/estimate"}
V3Routes == {"POST /api/v3/batch/execute", "POST /api/v3/batch/estimate"}
BatchRoutes == ExecuteRoutes \cup EstimateRoutes

BatchServed == request.route \in BatchRoutes
BatchSuccess == BatchServed /\ response.status = 200
ExecuteSuccess == request.route \in ExecuteRoutes /\ response.status = 200

\* the recipients of the request (none when the field is absent)
Recipients == Field(request.body, "recipients", <<>>)

\* the token as the client supplied it; the V2 routes are USDC only
SuppliedToken ==
    IF request.route \in V3Routes THEN Field(request.body, "token", USDC) ELSE USDC
SuppliedSymbol == toUpperCase(SuppliedToken)
KnownSymbol == ~startsWith0x(SuppliedToken) /\ SuppliedSymbol \in DOMAIN BASE_TOKENS

\* decimals and fee rate of the descriptor the registry gives the supplied token
EffectiveDecimals == IF KnownSymbol THEN BASE_TOKENS[SuppliedSymbol].decimals ELSE 18
EffectiveFeeBps ==
    IF KnownSymbol /\ BASE_TOKENS[SuppliedSymbol].feeBps # 0
    THEN BASE_TOKENS[SuppliedSymbol].feeBps
    ELSE SPRAAY_FEE_BPS

\* the summary of a successful batch response
Summary == IF request.route = "POST /api/v3/batch/execute" THEN response.batch ELSE response

\* a reported amount, read back in base units
ReportedUnits(amount) == parseUnits(amount, EffectiveDecimals).value

\* base units of the i-th recipient amount
BaseUnitsOf(i) == parseUnits(Recipients[i].amount, EffectiveDecimals).value

\* floor(amount * feeBps / 10000)
FloorFee(amount) == (amount * EffectiveFeeBps) \div 10000

RECURSIVE GrossRange(_, _)
GrossRange(lo, hi) ==
    IF lo > hi THEN 0
    ELSE IF lo = hi THEN BaseUnitsOf(lo)
    ELSE GrossRange(lo, (lo + hi) \div 2) + GrossRange((lo + hi) \div 2 + 1, hi)

\* exact sum of the per-recipient base-unit amounts
GrossAmount == GrossRange(1, Len(Recipients))

RECURSIVE PerEntryFeeRange(_, _)
PerEntryFeeRange(lo, hi) ==
    IF lo > hi THEN 0
    ELSE IF lo = hi THEN FloorFee(BaseUnitsOf(lo))
    ELSE PerEntryFeeRange(lo, (lo + hi) \div 2)
         + PerEntryFeeRange((lo + hi) \div 2 + 1, hi)

\* sum over the entries of the fee computed per entry
PerEntryFeeSum == PerEntryFeeRange(1, Len(Recipients))

NoNegativeAmount == \A i \in 1..Len(Recipients) : BaseUnitsOf(i) >= 0

(***************************************************************************)
(* C1: in every successful batch response (V2 or V3, execute or estimate)  *)
(* the reported total is the exact sum of the per-recipient base-unit      *)
(* amounts, the fee is floor(gross * effectiveFeeBps / 10000) and          *)
(* totalWithFee is gross + fee.                                            *)
(***************************************************************************)
C1_ExactFeeArithmetic ==
    BatchSuccess =>
        /\ ReportedUnits(Summary.totalAmount) = GrossAmount
        /\ ReportedUnits(Summary.fee) = FloorFee(GrossAmount)
        /\ ReportedUnits(Summary.totalWithFee) = GrossAmount + FloorFee(GrossAmount)

(***************************************************************************)
(* C2, as claimed: for 1..200 recipients the per-entry fees                *)
(* floor(amount_i * feeBps / 10000) add up to the fee computed once over   *)
(* the aggregate.                                                          *)
(***************************************************************************)
C2_PerEntryEqualsAggregate ==
    (BatchSuccess /\ Len(Recipients) \in 1..MaxRecipients /\ NoNegativeAmount)
        => PerEntryFeeSum = FloorFee(GrossAmount)

(***************************************************************************)
(* C2, amended: the per-entry fees never add up to more than the fee the   *)
(* handler charges on the aggregate, and fall short of it by at most the   *)
(* number of entries; by less than that when no amount is negative, so a   *)
(* single non-negative entry is charged exactly its per-entry fee.         *)
(***************************************************************************)
C2_PerEntryBoundsAggregate ==
    BatchSuccess =>
        LET charged == ReportedUnits(Summary.fee)
            n == Len(Recipients)
        IN  /\ PerEntryFeeSum <= charged
            /\ charged <= PerEntryFeeSum + n
            /\ (NoNegativeAmount /\ n >= 1) => charged < PerEntryFeeSum + n

\* two entries whose per-entry fees round to less than the aggregate fee
C2_Witness ==
    /\ BatchSuccess
    /\ Len(Recipients) = 2
    /\ NoNegativeAmount
    /\ PerEntryFeeSum < ReportedUnits(Summary.fee)

(***************************************************************************)
(* C3: in every successful execute response the approval names the token   *)
(* of the batch call, its spender is the contract the transaction is sent  *)
(* to, and its amount is totalWithFee in base units.                       *)
(***************************************************************************)
C3_ApprovalMatchesBatch ==
    ExecuteSuccess =>
        /\ AddressBytes(response.approvalRequired.token) = response.transaction.data.token
        /\ response.approvalRequired.token =
              (IF request.route \in V3Routes THEN response.token.address
               ELSE response.tokenAddress)
        /\ response.approvalRequired.spender = response.transaction.to
        /\ response.approvalRequired.spender = response.contract
        /\ parseUnits(response.approvalRequired.amount, 0).value
              = ReportedUnits(Summary.totalWithFee)
        /\ parseUnits(response.approvalRequired.amount, 0).value
              = GrossAmount + ReportedUnits(Summary.fee)

\* the V3 response to USDC [(R1, "10.00"), (R2, "25.50")] approves 35,606,500
C3_Witness ==
    /\ ExecuteSuccess
    /\ request.route \in V3Routes
    /\ Recipients = ExampleRecipients
    /\ response.approvalRequired.amount = <<"3", "5", "6", "0", "6", "5", "0", "0">>
    /\ response.approvalRequired.token = USDC_ADDRESS

(***************************************************************************)
(* C4: an execute response for a non-native token carries the approval     *)
(* (amount = totalWithFee) next to the batch call; for the native asset it *)
(* carries no approval and totalWithFee as the transaction's value.        *)
(***************************************************************************)
C4_NativeSkipsApproval ==
    ExecuteSuccess =>
        IF response.transaction.data.token = AddressBytes(NativeToken)
        THEN /\ "approvalRequired" \notin DOMAIN response
             /\ parseUnits(response.transaction.value, 0).value
                   = ReportedUnits(Summary.totalWithFee)
        ELSE /\ "approvalRequired" \in DOMAIN response
             /\ parseUnits(response.approvalRequired.amount, 0).value
                   = ReportedUnits(Summary.totalWithFee)

(***************************************************************************)
(* C5: the execute handlers refuse more than 200 recipients (too many) and *)
(* an empty list (empty), with no transaction; for 1..200 recipients       *)
(* neither refusal is given.                                               *)
(***************************************************************************)
TooManyRecipients == ErrorResponse(400, "Maximum 200 recipients")
EmptyRecipients == ErrorResponse(400, "recipients array required")

C5_CountLimits ==
    request.route \in ExecuteRoutes =>
        /\ Len(Recipients) > MaxRecipients => response = TooManyRecipients
        /\ Len(Recipients) = 0 => response = EmptyRecipients
        /\ Len(Recipients) \in 1..MaxRecipients
              => response \notin {TooManyRecipients, EmptyRecipients}

\* 200 recipients are composed, and 201 have been refused in another run
C5_Witness ==
    /\ request.route \in ExecuteRoutes
    /\ Len(Recipients) = MaxRecipients
    /\ response.status = 200
    /\ "transaction" \in DOMAIN response

(***************************************************************************)
(* C6: every successful batch response, estimates included, reports a      *)
(* recipientCount in 1..200.                                               *)
(***************************************************************************)
C6_CountInRange ==
    BatchSuccess => Summary.recipientCount \in 1..MaxRecipients

(***************************************************************************)
(* C7: the V3 batch call is sprayTokenWithMeta exactly when the memo is    *)
(* non-empty or the agent identifier is non-zero, and then carries both;   *)
(* otherwise it is the plain sprayToken call; either way it carries the    *)
(* resolved token and the recipients' tuples in base units.                *)
(***************************************************************************)
C7_MetaVariant ==
    (ExecuteSuccess /\ request.route \in V3Routes) =>
        LET memo == Field(request.body, "memo", <<>>)
            agentId == Field(request.body, "agentId", 0)
            data == response.transaction.data
        IN  /\ data.name = "sprayTokenWithMeta" <=> (memo # <<>> \/ agentId # 0)
            /\ data.name \in {"sprayTokenWithMeta", "sprayToken"}
            /\ data.name = "sprayTokenWithMeta" => data.memo = memo /\ data.agentId = agentId
            /\ data.name = "sprayToken" => DOMAIN data = {"name", "token", "recipients"}
            /\ data.token = AddressBytes(response.token.address)
            /\ Len(data.recipients) = Len(Recipients)
            /\ \A i \in 1..Len(Recipients) :
                  /\ data.recipients[i].recipient = AddressBytes(Recipients[i].address)
                  /\ data.recipients[i].amount = BaseUnitsOf(i)

\* an agent identifier alone selects the call with metadata
C7_Witness ==
    /\ ExecuteSuccess
    /\ request.route \in V3Routes
    /\ Field(request.body, "memo", <<>>) = <<>>
    /\ Field(request.body, "agentId", 0) = 42
    /\ response.transaction.data.name = "sprayTokenWithMeta"

(***************************************************************************)
(* C8: the fee rate of a batch is the token's own override when the token  *)
(* has one and 30 bps otherwise, raw addresses included; execute, estimate *)
(* and the token listing use the same rate for the same token.             *)
(***************************************************************************)
\* the rate the listing shows for a symbol of the table
ListedFeePercent(symbol) ==
    LET entry == CHOOSE i \in 1..Len(tokensHandler.tokens) :
                     tokensHandler.tokens[i].symbol = symbol
    IN  tokensHandler.tokens[entry].feePercent

SwapServed == request.route = "GET /api/v1/swap/quote" /\ response # NoResponse

C9_ValidAddressResolves ==
    (/\ SwapServed
     /\ ~MissingParam(request.query)
     /\ isAddress(request.query.tokenIn)
     /\ isAddress(request.query.tokenOut)) =>
        ~(response.status = 400 /\ response.error = "Unknown token")

(***************************************************************************)
(* C10: a token input that is neither a known symbol nor an address        *)
(* literal is refused as unresolvable by every V3 batch operation, which   *)
(* computes no amounts for it.                                             *)
(***************************************************************************)
C10_UnknownTokenRefused ==
    (/\ request.route \in V3Routes
     /\ Len(Recipients) \in 1..MaxRecipients
     /\ ~KnownSymbol
     /\ ~isAddress(SuppliedToken)) =>
        response.status # 200

(***************************************************************************)
(* C11: a symbol that is a key of the token table resolves to that entry   *)
(* under any letter casing of the input.  Stated on the swap-quote route:  *)
(* a query whose two tokens are, up to casing, keys of the table is never  *)
(* refused as naming an unknown token.                                     *)
(***************************************************************************)
\* the input is a key of the swap token table in some letter casing
KeyInSomeCasing(input) ==
    \E i \in 1..Len(SWAP_TOKEN_KEYS) : toUpperCase(SWAP_TOKEN_KEYS[i]) = toUpperCase(input)

C11_AnyCasingResolves ==
    (/\ SwapServed
     /\ ~MissingParam(request.query)
     /\ KeyInSomeCasing(request.query.tokenIn)
     /\ KeyInSomeCasing(request.query.tokenOut)) =>
        ~(response.status = 400 /\ response.error = "Unknown token")

(***************************************************************************)
(* C12: the address literal of a table token, in any casing, resolves to   *)
(* the descriptor of that token's symbol, so a V3 batch computed from the  *)
(* address is the batch computed from the symbol.                          *)
(***************************************************************************)
\* the symbols of the batch token table whose address is the supplied token
SymbolsOfAddress ==
    {BASE_TOKEN_KEYS[i] : i \in
        {j \in 1..Len(BASE_TOKEN_KEYS) :
            toLowerCase(BASE_TOKENS[BASE_TOKEN_KEYS[j]].address) = toLowerCase(SuppliedToken)}}

\* the response of the same route to the same body with the token replaced
SameRequestWithToken(symbol) ==
    LET body == [request.body EXCEPT !.token = symbol]
    IN  IF request.route = "POST /api/v3/batch/execute"
        THEN batchPaymentV3Handler(body)
        ELSE batchEstimateV3Handler(body)

C12_AddressResolvesAsSymbol ==
    (request.route \in V3Routes /\ response # NoResponse /\ response.status = 200) =>
        \A symbol \in SymbolsOfAddress : response = SameRequestWithToken(symbol)

(***************************************************************************)
(* C13: a quote whose two tokens resolve to the same token (the same       *)
(* symbol, the alias pair ETH/WETH, a symbol and its own address) is       *)
(* refused for every positive amount, as a client error and before the     *)
(* quoting contract is asked: the answer is neither a quote nor the search *)
(* reporting that it found no liquidity.                                   *)
(***************************************************************************)
\* both tokens of the query resolve
BothResolve ==
    /\ ~MissingParam(request.query)
    /\ resolveToken(request.query.tokenIn) # <<>>
    /\ resolveToken(request.query.tokenOut) # <<>>

\* both tokens of the query resolve, and to the same token
SameToken ==
    /\ BothResolve
    /\ toLowerCase(resolveToken(request.query.tokenIn)[1].address)
         = toLowerCase(resolveToken(request.query.tokenOut)[1].address)

PositiveAmount == ~NotPositive(parseFloat(request.query.amountIn))

C13_SelfSwapRefused ==
    (SwapServed /\ SameToken /\ PositiveAmount) => response.status = 400

(***************************************************************************)
(* What the quoting contract would answer to the probes of the served      *)
(* query, read off the request independently of the search.                *)
(***************************************************************************)
SwapSuccess == SwapServed /\ response.status = 200

TokenInInfo == resolveToken(request.query.tokenIn)[1]
TokenOutInfo == resolveToken(request.query.tokenOut)[1]

\* the amount in base units of tokenIn
AmountInWei ==
    parseUnits(NumberToString(parseFloat(request.query.amountIn)), TokenInInfo.decimals).value

\* the fee tiers whose direct probe succeeds, and what it answers
DirectTiers == {f \in TierSet : staticCall(request.quoter.direct[f], AmountInWei).ok}
DirectOutput(f) == staticCall(request.quoter.direct[f], AmountInWei).amountOut

\* the pairs of fee tiers whose two probes through WETH succeed, and what the
\* second answers when fed the answer of the first
TwoHopPairs ==
    {p \in TierSet \X TierSet :
        /\ staticCall(request.quoter.hop1[p[1]], AmountInWei).ok
        /\ staticCall(request.quoter.hop2[p[2]], 0).ok}
TwoHopOutput(p) ==
    staticCall(request.quoter.hop2[p[2]],
               staticCall(request.quoter.hop1[p[1]], AmountInWei).amountOut).amountOut

\* the search goes through WETH when no direct probe gave it a quote and
\* neither token is WETH
TwoHopAttempted ==
    /\ \A f \in DirectTiers : DirectOutput(f) = 0
    /\ TokenInInfo.address # WETH_ADDRESS
    /\ TokenOutInfo.address # WETH_ADDRESS

ProbeOutputs ==
    {DirectOutput(f) : f \in DirectTiers}
    \cup (IF TwoHopAttempted THEN {TwoHopOutput(p) : p \in TwoHopPairs} ELSE {})

\* the estimated output of a quote, in base units of tokenOut
ReportedAmountOut ==
    parseUnits(response.tokenOut.estimatedAmount, TokenOutInfo.decimals).value

(***************************************************************************)
(* C14: a quote reports the highest output among the probes that           *)
(* succeeded: the direct probes of the three fee tiers and, when the       *)
(* search went through WETH, the nine pairs of fee tiers.                  *)
(***************************************************************************)
C14_BestOutput ==
    SwapSuccess =>
        /\ ReportedAmountOut \in ProbeOutputs
        /\ \A o \in ProbeOutputs : o <= ReportedAmountOut

\* a quote chosen among direct probes that answer differently
C14_Witness ==
    /\ SwapSuccess
    /\ Cardinality(ProbeOutputs) >= 2
    /\ ~TwoHopAttempted
    /\ \E f \in DirectTiers : f # 500 /\ DirectOutput(f) = ReportedAmountOut
                              /\ 500 \in DirectTiers /\ DirectOutput(500) \in 1..(ReportedAmountOut - 1)

(***************************************************************************)
(* C15: the search reports that there is no liquidity exactly when no      *)
(* route succeeded, direct or through WETH; a route that succeeds with an  *)
(* output of 0 is a success and is returned as a quote.                    *)
(***************************************************************************)
\* the query reached the route search: tokens and amount were accepted
SearchRan ==
    /\ SwapServed
    /\ BothResolve
    /\ PositiveAmount
    /\ parseUnits(NumberToString(parseFloat(request.query.amountIn)),
                  TokenInInfo.decimals).ok

NoLiquidity ==
    /\ response.status = 500
    /\ response.details = "No liquidity found"

\* some probe of the search space of the query succeeds
SomeRouteSucceeds ==
    \/ DirectTiers # {}
    \/ /\ TokenInInfo.address # WETH_ADDRESS
       /\ TokenOutInfo.address # WETH_ADDRESS
       /\ TwoHopPairs # {}

C15_NoLiquidityIffNoRoute ==
    SearchRan => (NoLiquidity <=> ~SomeRouteSucceeds)

(***************************************************************************)
(* C16: whenever at least one direct probe succeeds the quote is a direct  *)
(* route, and its output and its fee tier are those of one and the same    *)
(* successful direct probe.                                                *)
(***************************************************************************)
C16_DirectPreferred ==
    (SearchRan /\ DirectTiers # {}) =>
        /\ response.status = 200
        /\ Len(response.route) = 2
        /\ \E f \in DirectTiers :
              /\ ReportedAmountOut = DirectOutput(f)
              /\ response.feeTier = feeTierLabel(f)
              /\ response.gasEstimate = BigIntToString(request.quoter.direct[f].gas)

(***************************************************************************)
(* C17: when no direct pool exists, neither token is WETH, and the two     *)
(* legs through WETH have pools, the quote is the output of the second leg *)
(* fed the output of the first, on the route [X, WETH, Z], with the gas    *)
(* estimates of the two legs added.                                        *)
(***************************************************************************)
C17_TwoHopComposed ==
    (/\ SearchRan
     /\ DirectTiers = {}
     /\ TokenInInfo.address # WETH_ADDRESS
     /\ TokenOutInfo.address # WETH_ADDRESS
     /\ TwoHopPairs # {}) =>
        /\ response.status = 200
        /\ response.route = <<TokenInInfo.symbol, WETH, TokenOutInfo.symbol>>
        /\ \E p \in TwoHopPairs :
              /\ ReportedAmountOut = TwoHopOutput(p)
              /\ response.gasEstimate
                   = BigIntToString(request.quoter.hop1[p[1]].gas
                                    + request.quoter.hop2[p[2]].gas)

(***************************************************************************)
(* C18: when every probe of the search space of a request fails in         *)
(* transport the failure is one the caller can tell apart from the search  *)
(* finding no liquidity.                                                   *)
(***************************************************************************)
\* every probe the search issues fails in transport: the direct ones and,
\* unless a token is WETH, the first legs through WETH, after which no
\* second leg is probed
EveryProbeDown ==
    /\ \A f \in TierSet : request.quoter.direct[f] = Down
    /\ (TokenInInfo.address # WETH_ADDRESS /\ TokenOutInfo.address # WETH_ADDRESS)
          => \A f \in TierSet : request.quoter.hop1[f] = Down

C18_ProviderUnavailable ==
    (SearchRan /\ EveryProbeDown) => ~NoLiquidity

(***************************************************************************)
(* C19: an amount written with more fractional digits than the token has   *)
(* decimals is refused wherever amounts are converted: no batch and no     *)
(* quote is computed from it.                                              *)
(***************************************************************************)
\* digits, with at most one point among them
DecimalString(a) ==
    /\ AllIn(SubSeq(a, 1, DotIndex(a) - 1), Digits)
    /\ AllIn(From(a, DotIndex(a) + 1), Digits)
    /\ \E i \in 1..Len(a) : a[i] \in Digits

\* a decimal string with more than `decimals` digits after the point
ExceedsPrecision(a, decimals) ==
    DecimalString(a) /\ Len(From(a, DotIndex(a) + 1)) > decimals

C19_PrecisionExceeded ==
    /\ (BatchServed /\ \E i \in 1..Len(Recipients) :
                          ExceedsPrecision(Recipients[i].amount, EffectiveDecimals))
          => response.status # 200
    /\ (SwapServed /\ BothResolve
                   /\ ExceedsPrecision(request.query.amountIn, TokenInInfo.decimals))
          => response.status # 200

(***************************************************************************)
(* C20: an amount written with at most d fractional digits, converted to   *)
(* base units at precision d and formatted back at precision d, comes back *)
(* with its value unchanged and in one spelling: no leading zeros before   *)
(* the point, no trailing zeros after it, at least one digit on each side. *)
(* It comes back letter for letter exactly when it was written that way.   *)
(* Read off the totalAmount a batch of one recipient reports.              *)
(***************************************************************************)
\* the spelling of a decimal string without superfluous zeros
Canonical(a) ==
    LET whole == SubSeq(a, 1, DotIndex(a) - 1)
        decimal == From(a, DotIndex(a) + 1)
        w == From(whole, PrefixLength(whole, {"0"}) + 1)
        d == SubSeq(decimal, 1, Len(decimal) - SuffixLength(decimal, {"0"}))
    IN  (IF w = <<>> THEN <<"0">> ELSE w) \o <<".">> \o (IF d = <<>> THEN <<"0">> ELSE d)

\* a successful batch of one recipient whose amount is a decimal string
\* within the precision of the token
OneAmountBatch ==
    /\ BatchSuccess
    /\ Len(Recipients) = 1
    /\ DecimalString(Recipients[1].amount)
    /\ ~ExceedsPrecision(Recipients[1].amount, EffectiveDecimals)

C20_RoundTripCanonical ==
    OneAmountBatch =>
        /\ Summary.totalAmount = Canonical(Recipients[1].amount)
        /\ ReportedUnits(Summary.totalAmount) = BaseUnitsOf(1)
        /\ (Summary.totalAmount = Recipients[1].amount
               <=> Recipients[1].amount = Canonical(Recipients[1].amount))

\* the amount comes back letter for letter
C20_RoundTripExact ==
    OneAmountBatch => Summary.totalAmount = Recipients[1].amount

\* "10.00" comes back as "10.0"
C20_Witness ==
    /\ OneAmountBatch
    /\ Recipients[1].amount = Amount_10_00
    /\ Summary.totalAmount = <<"1", "0", ".", "0">>

(***************************************************************************)
(* C21: a batch in which some recipient amount is zero, negative or not a  *)
(* number is rejected, by execute and by estimate: no successful batch     *)
(* response is computed from an amount that is not positive.               *)
(***************************************************************************)
\* the amount does not convert, or converts to no more than 0 base units
NotAPositiveAmount(a) ==
    \/ ~parseUnits(a, EffectiveDecimals).ok
    \/ parseUnits(a, EffectiveDecimals).value <= 0

C21_InvalidAmountRejected ==
    (BatchServed /\ \E i \in 1..Len(Recipients) : NotAPositiveAmount(Recipients[i].amount))
        => response.status # 200

(***************************************************************************)
(* C22: a batch in which some recipient address is not a valid 20-byte     *)
(* address is rejected as a validation failure of the request (400), by    *)
(* execute and by estimate: it is neither answered successfully nor failed *)
(* as an internal error carrying the message of the exception.             *)
(***************************************************************************)
C22_InvalidRecipientRejected ==
    (BatchServed /\ \E i \in 1..Len(Recipients) : ~isAddress(Recipients[i].address))
        => response.status = 400

(***************************************************************************)
(* C23: among routes that answer the same output the quote is the one the  *)
(* rule selects: a direct route before a route through WETH, and among     *)
(* routes of one kind the one whose fee tiers add up to the least.         *)
(***************************************************************************)
\* the direct tiers, and the pairs through WETH, that answer the quoted output
BestDirectTiers == {f \in DirectTiers : DirectOutput(f) = ReportedAmountOut}
BestTwoHopPairs == {p \in TwoHopPairs : TwoHopOutput(p) = ReportedAmountOut}

C23_TieBreak ==
    SwapSuccess =>
        IF BestDirectTiers # {}
        THEN /\ Len(response.route) = 2
             /\ \E f \in BestDirectTiers :
                   /\ \A g \in BestDirectTiers : f <= g
                   /\ response.feeTier = feeTierLabel(f)
        ELSE \E p \in BestTwoHopPairs :
                /\ \A q \in BestTwoHopPairs : p[1] + p[2] <= q[1] + q[2]
                /\ response.feeTier = feeTierLabel(p[1])
                /\ response.gasEstimate
                     = BigIntToString(request.quoter.hop1[p[1]].gas
                                      + request.quoter.hop2[p[2]].gas)

(***************************************************************************)
(* C24: probes through WETH are issued only after the three direct probes, *)
(* only if none of those succeeded, and never when tokenIn or tokenOut is  *)
(* WETH; a direct probe that succeeded, with any output, 0 included,       *)
(* suppresses the search through WETH.                                     *)
(***************************************************************************)
DirectLeg == "tokenIn -> tokenOut"

\* some probe of the request went through WETH
ProbedThroughWeth == \E i \in 1..Len(probes) : probes[i].leg # DirectLeg

C24_TwoHopOnlyAfterDirectFailed ==
    (SwapServed /\ ProbedThroughWeth) =>
        /\ \A i \in 1..Len(probes) : probes[i].leg = DirectLeg <=> i <= Len(FEE_TIERS)
        /\ DirectTiers = {}
        /\ TokenInInfo.address # WETH_ADDRESS
        /\ TokenOutInfo.address # WETH_ADDRESS

(***************************************************************************)
(* C25: a price response served from the cache at time t holds prices the  *)
(* chain was asked for later than t - 30 s, under every interleaving of    *)
(* price requests.                                                         *)
(***************************************************************************)
ServedFromCache == priceResponse # NoResponse /\ priceResponse.cached

PriceServed == priceResponse # NoResponse

C26_SingleTokenFilter ==
    (/\ PriceServed
     /\ "token" \in DOMAIN priceResponse.query
     /\ priceResponse.query.token \in DOMAIN TOKENS) =>
        /\ DOMAIN priceResponse.body.prices = {priceResponse.query.token}
        /\ priceResponse.body.tokenCount = 1

(***************************************************************************)
(* C27: the V3 estimate agrees with the V3 execute on the same body: where *)
(* execute succeeds, estimate succeeds with the same recipientCount,       *)
(* totalAmount, fee, feePercent and totalWithFee; where execute rejects    *)
(* the token or the recipient count (400), estimate rejects the body too.  *)
(***************************************************************************)
\* what the V3 estimate answers to the body of the request being served
EstimateOfSameBody == batchEstimateV3Handler(request.body)

SummaryFields == {"recipientCount", "totalAmount", "fee", "feePercent", "totalWithFee"}

C27_EstimateAgreesWithExecute ==
    (request.route = "POST /api/v3/batch/execute" /\ response # NoResponse) =>
        /\ response.status = 200 =>
              /\ EstimateOfSameBody.status = 200
              /\ \A f \in SummaryFields : EstimateOfSameBody[f] = response.batch[f]
        /\ response.status = 400 => EstimateOfSameBody.status # 200

(***************************************************************************)
(* C28: under any interleaving of concurrent all-token price requests the  *)
(* timestamp stored in the price cache never decreases: no step replaces   *)
(* a cache entry by one stamped earlier.                                   *)
(***************************************************************************)
C28_CacheTimestampMonotonic ==
    [][priceCache # NoCache => priceCache'.timestamp >= priceCache.timestamp]_vars

(***************************************************************************)
(* C29: a price request that carries a non-empty token query parameter     *)
(* neither reads nor writes the price cache: it is never answered from the *)
(* cache, it always goes on to probe the chain, and none of its steps      *)
(* changes the cache content or timestamp, also when the parameter names   *)
(* no token of the table.  With an empty parameter (?token=) the statement *)
(* fails: C29_TokenRequestBypassesCache states it for every parameter.     *)
(***************************************************************************)
CarriesToken(query) == "token" \in DOMAIN query

CarriesNonEmptyToken(query) == CarriesToken(query) /\ query.token # <<>>

\* this step is request id entering the handler
StartedBy(id) == priceRequests[id] = NotStarted /\ priceRequests'[id] # NotStarted

\* this step is request id resuming after its quotes returned
FinishedBy(id) ==
    /\ priceRequests[id] # NotStarted
    /\ priceRequests[id].phase = "fetching"
    /\ priceRequests'[id].phase = "done"

\* the query of the request that makes this step
QueryOfStep(id) ==
    IF StartedBy(id)
    THEN IF priceRequests'[id].phase = "fetching"
         THEN priceRequests'[id].query
         ELSE priceResponse'.query
    ELSE priceRequests[id].query

\* the step neither reads the cache (no cached answer, the chain is asked)
\* nor writes it
BypassesCache(id) ==
    /\ priceCache' = priceCache
    /\ StartedBy(id) => priceRequests'[id].phase = "fetching"
    /\ priceResponse' # NoResponse => ~priceResponse'.cached

C29_NonEmptyTokenBypassesCache ==
    [][\A id \in PriceRequestIds :
          ((StartedBy(id) \/ FinishedBy(id)) /\ CarriesNonEmptyToken(QueryOfStep(id)))
              => BypassesCache(id)]_vars

C29_TokenRequestBypassesCache ==
    [][\A id \in PriceRequestIds :
          ((StartedBy(id) \/ FinishedBy(id)) /\ CarriesToken(QueryOfStep(id)))
              => BypassesCache(id)]_vars

\* a request naming no table token is answered from the chain while a fresh
\* all-token entry sits in the cache
C29_Witness ==
    /\ priceResponse # NoResponse
    /\ CarriesNonEmptyToken(priceResponse.query)
    /\ toUpperCase(priceResponse.query.token) \notin DOMAIN TOKENS
    /\ ~priceResponse.cached
    /\ priceCache # NoCache
    /\ priceResponse.at - priceCache.timestamp < CACHE_TTL

(***************************************************************************)
(* C30: a request that a handler rejects (HTTP 400) or that fails (HTTP    *)
(* 500) leaves every usage counter unchanged; a counter changes only for a *)
(* request answered successfully, and then by exactly one and for the      *)
(* endpoint's own priced key.                                              *)
(***************************************************************************)
\* the keys statsHandler has a price for
PricedKeys == DOMAIN InitialStats

\* the priced keys an endpoint may count under
OwnPricedKeys(route) ==
    CASE route \in {"POST /api/v1/batch/execute", "POST /api/v3/batch/execute"} ->
            {"batch_execute"}
      [] route \in {"POST /api/v1/batch/estimate", "POST /api/v3/batch/estimate"} ->
            {"batch_estimate"}
      [] route = "GET /api/v1/swap/quote" -> {"swap_quote"}
      [] OTHER -> PricedKeys

\* this step is a handler answering a request
HandlerStep == response = NoResponse /\ response' # NoResponse

CountedOnce ==
    \E key \in OwnPricedKeys(request'.route) :
        stats' = [stats EXCEPT ![key] = @ + 1]

C30_CountersOnlyOnSuccess ==
    [][HandlerStep =>
          /\ response'.status \in {400, 500} => stats' = stats
          /\ stats' # stats => (response'.status = 200 /\ CountedOnce)]_vars

====
